---- MODULE Spec2Model ----
(***************************************************************************)
(* A model of agentos-core's workflow scheduler, context tracker, session  *)
(* store, decision log and file helpers.                                   *)
(*                                                                         *)
(* Each component has its own variables and its own specification; a       *)
(* specification leaves the variables of the other components unchanged.   *)
(***************************************************************************)
EXTENDS Integers, Sequences, FiniteSets, TLC

VARIABLES
    \* ---- context tracker: one call of getBracket --------------------------
    brPromptCount,   \* argument promptCount
    brMaxContext,    \* argument maxContext
    brResult,        \* the BracketConfig returned, or NoResult before the call
    \* ---- context tracker: one call of enforceTokenBudget ------------------
    tbSections,      \* argument sections: sequence of [priority, tokens]
    tbBudget,        \* argument budget
    tbResult,        \* the returned array, as the indices of the kept sections
    \* ---- workflow engine: one call of calculateWaves ----------------------
    cwPhases,        \* argument phases: sequence of [id, dependsOn]
    cwResult,        \* the waves returned (phases named by their array index)
    \* ---- session store: a session saved under a configured cap ------------
    stEvents,        \* session.events of the in-memory session
    stMaxEvents,     \* the maxEvents argument of save (0: not given)
    stClock,         \* source of the events' timestamps
    stSaved,         \* the session file on disk: its content is the events saved
    stOriginal,      \* the SESSION_START event the session was created with
    \* ---- atomic-fs withLock and DecisionLog.record ------------------------
    activeLocks,     \* the Map activeLocks: resolved path -> the lock promise
    resolvedLocks,   \* the lock promises that have been resolved
    lkPc,            \* where each caller of record is
    lkFilePath,      \* the logPath of the DecisionLog each caller uses
    lkAwaiting,      \* the lock promise a waiting caller awaits
    lkDecisions,     \* the local array `decisions` of each caller
    lkTmp,           \* the content each caller wrote to its temp file
    lkReturned,      \* the Decision each record call returned
    logFiles,        \* the decision-log files, by resolved path
    \* ---- atomic-fs atomicWrite: one call, in a process that may be killed --
    awPc,            \* where the call is
    awContent,       \* argument content, a sequence of blocks
    awPrevious,      \* the target file as it was before the call
    awTarget,        \* the file at filePath
    awTmpFile,       \* the file at tmpFile
    \* ---- workflow engine: start, resume, phases ----------------------------
    workflow,        \* workflow.phases of the loaded WorkflowDefinition
    runner,          \* config.project.runner
    session,         \* the SessionState object in memory
    sessionFile,     \* the session record on disk
    handoffFile,     \* .handoff.md
    dashboard,       \* the session's entry of dashboard.json
    decisionLog,     \* the decisions recorded
    run,             \* "none", "start", "resume" or "resume-noop": the call running or last run
    mainPc,          \* position of start/resume and executePhase/executeWaves
    mainContent,     \* the text the main task's save is writing
    nextIndex,       \* resume's nextIndex (0 for -1)
    enWaves,         \* executeWaves' waves
    waveIndex,       \* executeWaves' wi (from 1)
    completedPhases, \* the completedPhases of resume and then of executeWaves
    loadedEvents,    \* the event log resume loaded
    resumes,         \* number of resume calls made
    wPc,             \* per phase: position of its executePhase/executeSinglePhase
    wAttempt,        \* per phase: executeWithRetry's attempt
    wResult,         \* per phase: executeWithRetry's result
    wContent,        \* per phase: the text its save is writing
    wInvocations,    \* per phase: calls of executor.run in this execution
    invocations,     \* calls of executor.run made for the session
    error,           \* what start or resume rejected with, "none" when it did not
    handoffReads,    \* prompt assemblies that read .handoff.md since it was last written
    \* ---- session manager: one call of detectCrashedSession ---------------
    csSession,       \* argument session: status, lastActivity, startedAt
    csCrashMinutes,  \* argument crashMinutes, or none
    csResult,        \* what the call returned, once it has
    \* ---- session continuity: one call of generateContinueHere ------------
    chPhases,        \* workflow.phases
    chSession,       \* argument session: currentPhase, events
    chResult,        \* the document written, once it is
    \* ---- context tracker: calls of estimateTokens --------------------------
    etText,          \* the text whose estimates are compared
    etRegex,         \* lastIndex of the regular expressions of estimateTokens
    etFirst,         \* what the first call on etText returned
    etLast,          \* what the latest call on etText returned
    etCalls,         \* the calls made, in order: on etText ("text") or on another text
    \* ---- workflow engine: one run of executeWithRetry's loop ---------------
    bkMaxRetries,    \* phase.retry || 0
    bkAttempt,       \* attempt
    bkPc,            \* position in the loop
    bkSleeps,        \* the backoffs waited, in ms
    bkExitCode       \* exit code of the latest result

brVars == <<brPromptCount, brMaxContext, brResult>>
tbVars == <<tbSections, tbBudget, tbResult>>
cwVars == <<cwPhases, cwResult>>
stVars == <<stEvents, stMaxEvents, stClock, stSaved, stOriginal>>
lkVars == <<activeLocks, resolvedLocks, lkPc, lkFilePath, lkAwaiting, lkDecisions,
            lkTmp, lkReturned, logFiles>>
enVars == <<workflow, runner, session, sessionFile, handoffFile, dashboard, decisionLog,
           run, mainPc, mainContent, nextIndex, enWaves, waveIndex, completedPhases,
           loadedEvents, resumes, wPc, wAttempt, wResult, wContent, wInvocations, invocations, error, handoffReads>>
awVars == <<awPc, awContent, awPrevious, awTarget, awTmpFile>>
csVars == <<csSession, csCrashMinutes, csResult>>
chVars == <<chPhases, chSession, chResult>>
etVars == <<etText, etRegex, etFirst, etLast, etCalls>>
bkVars == <<bkMaxRetries, bkAttempt, bkPc, bkSleeps, bkExitCode>>

\* A call that has not returned yet, and one that returned value v.
NoResult == [returned |-> FALSE]
Returned(v) == [returned |-> TRUE, value |-> v]

\* A path of the file system: no file there, or a file with a content.
NoFile == [exists |-> FALSE]
File(c) == [exists |-> TRUE, content |-> c]

Max(a, b) == IF a >= b THEN a ELSE b
Min(a, b) == IF a <= b THEN a ELSE b
Range(s) == {s[i] : i \in DOMAIN s}
Reverse(s) == [i \in 1..Len(s) |-> s[Len(s) + 1 - i]]

(***************************************************************************)
(* Context tracker: brackets                                               *)
(***************************************************************************)

BRACKET_CONFIGS ==
    << [bracket |-> "FRESH", minPercent |-> 60, maxPercent |-> 100,
        tokenBudget |-> 4000, includeSessionHistory |-> FALSE,
        includeArtifactIndex |-> FALSE, includeGotchas |-> FALSE,
        handoffWarning |-> FALSE],
       [bracket |-> "MODERATE", minPercent |-> 40, maxPercent |-> 60,
        tokenBudget |-> 6000, includeSessionHistory |-> TRUE,
        includeArtifactIndex |-> TRUE, includeGotchas |-> FALSE,
        handoffWarning |-> FALSE],
       [bracket |-> "DEPLETED", minPercent |-> 25, maxPercent |-> 40,
        tokenBudget |-> 8000, includeSessionHistory |-> TRUE,
        includeArtifactIndex |-> TRUE, includeGotchas |-> TRUE,
        handoffWarning |-> FALSE],
       [bracket |-> "CRITICAL", minPercent |-> 0, maxPercent |-> 25,
        tokenBudget |-> 10000, includeSessionHistory |-> TRUE,
        includeArtifactIndex |-> TRUE, includeGotchas |-> TRUE,
        handoffWarning |-> TRUE] >>

DEFAULT_MAX_CONTEXT == 200000
TOKENS_PER_ROUND == 3500

\* The values of RUNNER_CONTEXT_WINDOWS.
RunnerContextWindows == {200000, 1000000, 128000}

\* The remaining-capacity percentage is a fraction; it is kept exact as the
\* pair (numerator, maxContext): estimateContextPercent returns the numerator
\* of max(0, min(100, 100 - usedTokens / maxContext * 100)) over maxContext.
estimateUnclamped(promptCount, maxContext) ==
    100 * maxContext - promptCount * TOKENS_PER_ROUND * 100
estimateContextPercent(promptCount, maxContext) ==
    LET usedTokens == promptCount * TOKENS_PER_ROUND
    IN  Max(0, Min(100 * maxContext, 100 * maxContext - usedTokens * 100))

\* percent >= config.minPercent && percent <= config.maxPercent
InBracket(percentNum, maxContext, config) ==
    /\ percentNum >= config.minPercent * maxContext
    /\ percentNum <= config.maxPercent * maxContext

\* The order in which getBracket tests the configs: [...BRACKET_CONFIGS].reverse()
ForwardOrder(configs) == configs
BracketOrder(configs) == Reverse(configs)

getBracket(promptCount, maxContext) ==
    LET percent == estimateContextPercent(promptCount, maxContext)
        order == BracketOrder(BRACKET_CONFIGS)
        hits == {i \in DOMAIN order : InBracket(percent, maxContext, order[i])}
    IN  IF hits = {} THEN BRACKET_CONFIGS[1]
        ELSE order[CHOOSE i \in hits : \A j \in hits : i <= j]

MaxPromptCount == 60
MaxContextRounds == 5
\* maxContext arguments: the known runner windows and small windows of a few
\* rounds, where the percentage falls on bracket boundaries.
MaxContexts == RunnerContextWindows \cup {TOKENS_PER_ROUND * k : k \in 1..MaxContextRounds}

BrInit ==
    /\ brPromptCount \in 0..MaxPromptCount
    /\ brMaxContext \in MaxContexts
    /\ brResult = NoResult

BrIdle == brPromptCount = 0 /\ brMaxContext = DEFAULT_MAX_CONTEXT /\ brResult = NoResult

GetBracketCall ==
    /\ brResult = NoResult
    /\ brResult' = Returned(getBracket(brPromptCount, brMaxContext))
    /\ UNCHANGED <<brPromptCount, brMaxContext>>

(***************************************************************************)
(* Context tracker: token budget                                           *)
(***************************************************************************)

RECURSIVE SumTokens(_, _)
SumTokens(sections, idxs) ==
    IF idxs = <<>> THEN 0
    ELSE sections[Head(idxs)].tokens + SumTokens(sections, Tail(idxs))

AllIndices(sections) == [i \in 1..Len(sections) |-> i]

\* sections.filter(s => s.priority > 0)
RemovableAny(sections) == {i \in 1..Len(sections) : sections[i].priority >= 0}
Removable(sections) == {i \in 1..Len(sections) : sections[i].priority > 0}

\* .sort((a, b) => b.priority - a.priority): descending priority, stable
RECURSIVE SortByPriorityDesc(_, _)
SortByPriorityDesc(sections, idxs) ==
    IF idxs = {} THEN <<>>
    ELSE LET first == CHOOSE i \in idxs : \A j \in idxs :
                          \/ sections[i].priority > sections[j].priority
                          \/ sections[i].priority = sections[j].priority /\ i <= j
         IN  <<first>> \o SortByPriorityDesc(sections, idxs \ {first})

\* if (currentTokens <= budget) break
StopNever(currentTokens, budget) == FALSE
StopRemoving(currentTokens, budget) == currentTokens <= budget

\* the for loop over removable
RECURSIVE RemoveLoop(_, _, _, _, _)
RemoveLoop(sections, removable, remaining, currentTokens, budget) ==
    IF removable = <<>> \/ StopRemoving(currentTokens, budget) THEN remaining
    ELSE LET toRemove == Head(removable)
         IN  RemoveLoop(sections, Tail(removable),
                        SelectSeq(remaining, LAMBDA i : i # toRemove),
                        currentTokens - sections[toRemove].tokens, budget)

enforceTokenBudget(sections, budget) ==
    LET totalTokens == SumTokens(sections, AllIndices(sections))
    IN  IF totalTokens <= budget THEN AllIndices(sections)
        ELSE RemoveLoop(sections,
                        SortByPriorityDesc(sections, Removable(sections)),
                        AllIndices(sections), totalTokens, budget)

MaxSections == 3
MaxPriority == 2
MaxTokens == 2
MaxBudget == 3

SectionValues == [priority : 0..MaxPriority, tokens : 0..MaxTokens]

TbInit ==
    /\ \E n \in 0..MaxSections : tbSections \in [1..n -> SectionValues]
    /\ tbBudget \in 0..MaxBudget
    /\ tbResult = NoResult

TbIdle == tbSections = <<>> /\ tbBudget = 0 /\ tbResult = NoResult

EnforceTokenBudgetCall ==
    /\ tbResult = NoResult
    /\ tbResult' = Returned(enforceTokenBudget(tbSections, tbBudget))
    /\ UNCHANGED <<tbSections, tbBudget>>

(***************************************************************************)
(* Workflow engine: wave planning                                          *)
(***************************************************************************)

\* const deps = p.dependsOn || []; deps.every(d => completed.has(d))
EligibleSome(phase, completed) ==
    phase.dependsOn = {} \/ \E d \in phase.dependsOn : d \in completed
Eligible(phase, completed) == \A d \in phase.dependsOn : d \in completed

\* A planner that gives every phase a wave of its own.
calculateSequential(phases) ==
    [waves |-> [i \in 1..Len(phases) |-> <<i>>], warned |-> FALSE]

\* A fallback that drops the phases that are left.
FallbackNone(remaining) == <<>>
\* waves.push(...remaining.map(p => [p]))
FallbackWaves(remaining) == [k \in 1..Len(remaining) |-> <<remaining[k]>>]

\* The while loop of calculateWaves. Phases are named by their index in the
\* phases array, which keeps the identity remaining.indexOf(p) relies on.
RECURSIVE WaveLoop(_, _, _, _)
WaveLoop(phases, completed, remaining, waves) ==
    IF remaining = <<>> THEN [waves |-> waves, warned |-> FALSE]
    ELSE LET wave == SelectSeq(remaining, LAMBDA i : Eligible(phases[i], completed))
         IN  IF wave = <<>>
             THEN [waves |-> waves \o FallbackWaves(remaining),
                   warned |-> TRUE]
             ELSE WaveLoop(phases,
                           completed \cup {phases[i].id : i \in Range(wave)},
                           SelectSeq(remaining, LAMBDA i : i \notin Range(wave)),
                           Append(waves, wave))

calculateWavesFull(phases) == WaveLoop(phases, {}, [i \in 1..Len(phases) |-> i], <<>>)
calculateWaves(phases) == calculateWavesFull(phases).waves

MaxWavePhases == 3
PhaseIds == <<"a", "b", "c", "d", "e", "f">>
\* An id that names no phase of the workflow.
UnknownId == "ghost"

MaxDeps == 2

\* The dependsOn values of a workflow of n phases: at most MaxDeps ids, of
\* phases of the workflow (the phase itself included) or unknown.
DepSets(n) ==
    {D \in SUBSET ({PhaseIds[i] : i \in 1..n} \cup {UnknownId}) : Cardinality(D) <= MaxDeps}

\* A workflow of n phases with the ids PhaseIds[1..n].
CwInit ==
    /\ \E n \in 1..MaxWavePhases : \E deps \in [1..n -> DepSets(n)] :
          cwPhases = [i \in 1..n |-> [id |-> PhaseIds[i], dependsOn |-> deps[i]]]
    /\ cwResult = NoResult

CwIdle == cwPhases = <<>> /\ cwResult = NoResult

CalculateWavesCall ==
    /\ cwResult = NoResult
    /\ cwResult' = Returned(calculateWavesFull(cwPhases))
    /\ UNCHANGED cwPhases

(***************************************************************************)
(* Session store: trimming of the event log in save                        *)
(***************************************************************************)

DefaultMaxEvents == 200

\* const limit = maxEvents || 200   (an absent or zero maxEvents is falsy)
Limit(maxEvents) == IF maxEvents = 0 THEN DefaultMaxEvents ELSE maxEvents

\* array.slice(-k) for k >= 0: the last k elements; slice(-0) is slice(0),
\* the whole array.
SliceLast(s, k) ==
    IF k = 0 \/ k >= Len(s) THEN s ELSE SubSeq(s, Len(s) - k + 1, Len(s))

\* The condition under which save trims.
OverLimitLate(events, limit) == Len(events) > limit + 1
OverLimit(events, limit) == Len(events) > limit

\* if (session.events.length > limit) session.events = [first, ...slice(-(limit - 1))]
TrimEvents(events, maxEvents) ==
    LET limit == Limit(maxEvents)
    IN  IF OverLimit(events, limit)
        THEN <<events[1]>> \o SliceLast(events, limit - 1)
        ELSE events

MaxCap == 3
MaxStoreEvents == 6
StoreEventTypes == {"PHASE_START", "PHASE_COMPLETE", "PHASE_FAILED", "GATE_PAUSE"}

StInit ==
    /\ stMaxEvents \in 0..MaxCap
    /\ stClock = 1
    /\ stOriginal = [type |-> "SESSION_START", phase |-> "", timestamp |-> 0]
    /\ stEvents = <<stOriginal>>
    /\ stSaved = NoFile

StIdle ==
    /\ stMaxEvents = 0
    /\ stClock = 0
    /\ stOriginal = [type |-> "SESSION_START", phase |-> "", timestamp |-> 0]
    /\ stEvents = <<>>
    /\ stSaved = NoFile

\* session.events.push({...}) by the owner of the session
StorePush ==
    /\ stClock < MaxStoreEvents
    /\ \E t \in StoreEventTypes :
          stEvents' = Append(stEvents, [type |-> t, phase |-> "a", timestamp |-> stClock])
    /\ stClock' = stClock + 1
    /\ UNCHANGED <<stMaxEvents, stSaved, stOriginal>>

\* SessionStore.save(session, maxEvents) with no other writer: the trim
\* assigns session.events, atomicWrite puts the serialized record on disk.
StoreSave ==
    /\ Len(stEvents) <= MaxStoreEvents
    /\ stEvents' = TrimEvents(stEvents, stMaxEvents)
    /\ stSaved' = File(stEvents')
    /\ UNCHANGED <<stMaxEvents, stClock, stOriginal>>

(***************************************************************************)
(* atomic-fs withLock, and DecisionLog.record running under it             *)
(*                                                                         *)
(* One process, one event loop: a caller runs from one await to the next   *)
(* without interruption, and the callers interleave at the awaits.         *)
(***************************************************************************)

NumCallers == 3
Callers == 1..NumCallers

\* The logPath values the callers' DecisionLogs hold.
FilePaths == {"state/decisions.yaml", "./state/decisions.yaml", "other/decisions.yaml"}

\* const key = path.resolve(filePath): a leading "./" names the same file.
Resolve(filePath) ==
    IF filePath = "./state/decisions.yaml" THEN "state/decisions.yaml" ELSE filePath

LockKeys == {Resolve(f) : f \in FilePaths}

\* A key without an entry in activeLocks. A lock promise is named by the
\* caller that created it.
NoLock == 0

\* The condition of the wait loop: while (activeLocks.has(key)). `woken` tells
\* whether the caller comes from an await of the loop body.
IfLockHeld(key, woken) == ~woken /\ activeLocks[key] # NoLock
WhileLockHeld(key, woken) == activeLocks[key] # NoLock

\* String(n): the decimal digits of n
RECURSIVE Digits(_)
Digits(n) == IF n < 10 THEN <<n>> ELSE Digits(n \div 10) \o <<n % 10>>

\* s.padStart(len, fill)
PadStart(s, len, fill) ==
    IF Len(s) >= len THEN s ELSE [i \in 1..(len - Len(s)) |-> fill] \o s

\* The number in the id of the next decision: decisions.length + 1
SameNumber(decisions) == Len(decisions)
NextNumber(decisions) == Len(decisions) + 1

\* `DEC-${String(decisions.length + 1).padStart(3, '0')}`
DecisionId(decisions) ==
    [prefix |-> "DEC-", digits |-> PadStart(Digits(NextNumber(decisions)), 3, 0)]

\* DecisionLog.list(): the decisions of the file, [] when it cannot be read
ListDecisions(key) == IF logFiles[key].exists THEN logFiles[key].content ELSE <<>>

LkInit ==
    /\ activeLocks = [k \in LockKeys |-> NoLock]
    /\ resolvedLocks = {}
    /\ lkPc = [c \in Callers |-> "idle"]
    /\ lkFilePath \in [Callers -> FilePaths]
    /\ lkAwaiting = [c \in Callers |-> NoLock]
    /\ lkDecisions = [c \in Callers |-> <<>>]
    /\ lkTmp = [c \in Callers |-> NoFile]
    /\ lkReturned = [c \in Callers |-> NoResult]
    /\ logFiles = [k \in LockKeys |-> NoFile]

\* Callers that all name the same file, the first by either spelling of its
\* path.
LkContendedInit ==
    /\ LkInit
    /\ Resolve(lkFilePath[1]) = "state/decisions.yaml"
    /\ \A c \in Callers \ {1} : lkFilePath[c] = "state/decisions.yaml"

LkIdle ==
    /\ activeLocks = [k \in LockKeys |-> NoLock]
    /\ resolvedLocks = {}
    /\ lkPc = [c \in Callers |-> "done"]
    /\ lkFilePath = [c \in Callers |-> "other/decisions.yaml"]
    /\ lkAwaiting = [c \in Callers |-> NoLock]
    /\ lkDecisions = [c \in Callers |-> <<>>]
    /\ lkTmp = [c \in Callers |-> NoFile]
    /\ lkReturned = [c \in Callers |-> NoResult]
    /\ logFiles = [k \in LockKeys |-> NoFile]

\* The wait loop of withLock from its test on: either await the pending
\* lock, or set the caller's own lock and call fn, which runs to its first
\* await (the readFile of list()).
LockLoop(c, woken) ==
    LET key == Resolve(lkFilePath[c])
    IN  IF WhileLockHeld(key, woken)
        THEN /\ lkPc' = [lkPc EXCEPT ![c] = "await"]
             /\ lkAwaiting' = [lkAwaiting EXCEPT ![c] = activeLocks[key]]
             /\ UNCHANGED activeLocks
        ELSE /\ lkPc' = [lkPc EXCEPT ![c] = "list"]
             /\ lkAwaiting' = [lkAwaiting EXCEPT ![c] = NoLock]
             /\ activeLocks' = [activeLocks EXCEPT ![key] = c]

\* record(entry) is called: withLock(this.logPath, ...)
RecordCall(c) ==
    /\ lkPc[c] = "idle"
    /\ LockLoop(c, FALSE)
    /\ UNCHANGED <<resolvedLocks, lkFilePath, lkDecisions, lkTmp, lkReturned, logFiles>>

\* The awaited lock promise was resolved: the loop tests again.
LockWake(c) ==
    /\ lkPc[c] = "await"
    /\ lkAwaiting[c] \in resolvedLocks
    /\ LockLoop(c, TRUE)
    /\ UNCHANGED <<resolvedLocks, lkFilePath, lkDecisions, lkTmp, lkReturned, logFiles>>

\* A record that keeps the new decision only.
ReplaceDecisions(decisions, decision) == <<decision>>
\* decisions.push(decision)
PushDecision(decisions, decision) == Append(decisions, decision)

\* fn: list() returns; the decision gets its id and is pushed; atomicWrite
\* starts and awaits its writeFile of the temp file.
RecordList(c) ==
    /\ lkPc[c] = "list"
    /\ LET decisions == ListDecisions(Resolve(lkFilePath[c]))
           decision == [id |-> DecisionId(decisions), entry |-> c]
       IN  /\ lkDecisions' = [lkDecisions EXCEPT ![c] = PushDecision(decisions, decision)]
           /\ lkReturned' = [lkReturned EXCEPT ![c] = Returned(decision)]
    /\ lkPc' = [lkPc EXCEPT ![c] = "write"]
    /\ UNCHANGED <<activeLocks, resolvedLocks, lkFilePath, lkAwaiting, lkTmp, logFiles>>

\* atomicWrite: the temp file is written; the rename is awaited.
RecordWriteTmp(c) ==
    /\ lkPc[c] = "write"
    /\ lkTmp' = [lkTmp EXCEPT ![c] = File(lkDecisions[c])]
    /\ lkPc' = [lkPc EXCEPT ![c] = "rename"]
    /\ UNCHANGED <<activeLocks, resolvedLocks, lkFilePath, lkAwaiting, lkDecisions,
                   lkReturned, logFiles>>

\* atomicWrite: the temp file replaces the log (by rename, or by the copy of
\* the fallback); fn emits decision:recorded and returns.
RecordRename(c) ==
    /\ lkPc[c] = "rename"
    /\ logFiles' = [logFiles EXCEPT ![Resolve(lkFilePath[c])] = lkTmp[c]]
    /\ lkTmp' = [lkTmp EXCEPT ![c] = NoFile]
    /\ lkPc' = [lkPc EXCEPT ![c] = "release"]
    /\ UNCHANGED <<activeLocks, resolvedLocks, lkFilePath, lkAwaiting, lkDecisions,
                   lkReturned>>

\* What a call of withLock yields when its callback threw.
Threw == [returned |-> FALSE, threw |-> TRUE]

\* A try without the finally: a callback that throws leaves withLock at once.
NoFinally(threw) == IF threw THEN "done" ELSE "release"
\* try { return await fn() } finally { ... }: the finally block runs whether
\* fn returned or threw.
Finally(threw) == "release"

\* fn throws: atomicWrite rejects (its writeFile, or its rename and the copy
\* of the fallback, failed) and record's callback lets the error through.
RecordThrow(c) ==
    /\ lkPc[c] \in {"write", "rename"}
    /\ lkReturned' = [lkReturned EXCEPT ![c] = Threw]
    /\ lkPc' = [lkPc EXCEPT ![c] = Finally(TRUE)]
    /\ UNCHANGED <<activeLocks, resolvedLocks, lkFilePath, lkAwaiting, lkDecisions, lkTmp,
                   logFiles>>

\* finally { activeLocks.delete(key); resolve() }
LockRelease(c) ==
    /\ lkPc[c] = "release"
    /\ activeLocks' = [activeLocks EXCEPT ![Resolve(lkFilePath[c])] = NoLock]
    /\ resolvedLocks' = resolvedLocks \cup {c}
    /\ lkPc' = [lkPc EXCEPT ![c] = "done"]
    /\ UNCHANGED <<lkFilePath, lkAwaiting, lkDecisions, lkTmp, lkReturned, logFiles>>

\* The entry of caller c carries the session id and the agent of its caller.
SessionIds == {"s1", "s2"}
Agents == {"dev", "@dev", "QA", "qa"}
SessionIdOf(c) == IF c % 2 = 1 THEN "s1" ELSE "s2"
AgentOf(c) == IF c <= 2 THEN "@dev" ELSE "qa"

\* agent.replace(/^@/, '').toLowerCase()
NormalizeAgent(a) ==
    CASE a = "@dev" -> "dev"
      [] a = "QA" -> "qa"
      [] OTHER -> a

\* list(), findBySession(sessionId) and findByAgent(agent): the decisions of
\* the file, filtered.
Queries ==
    {[kind |-> "list"]} \cup {[kind |-> "session", sessionId |-> s] : s \in SessionIds}
                       \cup {[kind |-> "agent", agent |-> a] : a \in Agents}
Find(decisions, q) ==
    CASE q.kind = "list" -> decisions
      [] q.kind = "session" ->
            SelectSeq(decisions, LAMBDA d : SessionIdOf(d.entry) = q.sessionId)
      [] q.kind = "agent" -> SelectSeq(decisions,
                      LAMBDA d : NormalizeAgent(AgentOf(d.entry)) = NormalizeAgent(q.agent))

\* Caller c calls list, findBySession or findByAgent instead of record: the
\* file is read without the lock.
Query(c, q) ==
    /\ lkPc[c] = "idle"
    /\ lkReturned' = [lkReturned EXCEPT
                         ![c] = Returned(Find(ListDecisions(Resolve(lkFilePath[c])), q))]
    /\ lkPc' = [lkPc EXCEPT ![c] = "queried"]
    /\ UNCHANGED <<activeLocks, resolvedLocks, lkFilePath, lkAwaiting, lkDecisions, lkTmp,
                   logFiles>>

\* The callers whose callback fn has started and not yet returned.
InCallback(key) ==
    {c \in Callers : Resolve(lkFilePath[c]) = key /\ lkPc[c] \in {"list", "write", "rename"}}

\* The callers whose record call has written the log.
Recorded(key) ==
    {c \in Callers : Resolve(lkFilePath[c]) = key /\ lkPc[c] \in {"release", "done"}}

(***************************************************************************)
(* atomic-fs atomicWrite                                                   *)
(*                                                                         *)
(* A file content is a sequence of blocks. writeFile and copyFile create   *)
(* or truncate their destination and then write it block by block; rename  *)
(* replaces the target in one step; the process can be killed between any  *)
(* two steps.                                                              *)
(***************************************************************************)

MaxBlocks == 2
Blocks == {"x", "y"}
Contents == UNION {[1..n -> Blocks] : n \in 1..MaxBlocks}

AwInit ==
    /\ awPc = "mkdir"
    /\ awContent \in Contents
    /\ awPrevious \in {NoFile} \cup {File(c) : c \in Contents}
    /\ awTarget = awPrevious
    /\ awTmpFile = NoFile

AwIdle ==
    /\ awPc = "done"
    /\ awContent = <<>>
    /\ awPrevious = NoFile
    /\ awTarget = NoFile
    /\ awTmpFile = NoFile

\* await fs.mkdir(dir, { recursive: true }); writeFile then opens the temp file
AwMkdir ==
    /\ awPc = "mkdir"
    /\ awTmpFile' = File(<<>>)
    /\ awPc' = "writeFile"
    /\ UNCHANGED <<awContent, awPrevious, awTarget>>

\* await fs.writeFile(tmpFile, content, 'utf8'), one block at a time
AwWriteBlock ==
    /\ awPc = "writeFile"
    /\ Len(awTmpFile.content) < Len(awContent)
    /\ awTmpFile' = File(SubSeq(awContent, 1, Len(awTmpFile.content) + 1))
    /\ UNCHANGED <<awPc, awContent, awPrevious, awTarget>>

\* await fs.rename(tmpFile, filePath) succeeds
AwRename ==
    /\ awPc = "writeFile"
    /\ awTmpFile.content = awContent
    /\ awTarget' = awTmpFile
    /\ awTmpFile' = NoFile
    /\ awPc' = "done"
    /\ UNCHANGED <<awContent, awPrevious>>

\* fs.rename throws (any error is caught): copyFile opens the target
AwRenameFails ==
    /\ awPc = "writeFile"
    /\ awTmpFile.content = awContent
    /\ awTarget' = File(<<>>)
    /\ awPc' = "copyFile"
    /\ UNCHANGED <<awContent, awPrevious, awTmpFile>>

\* await fs.copyFile(tmpFile, filePath), one block at a time
AwCopyBlock ==
    /\ awPc = "copyFile"
    /\ Len(awTarget.content) < Len(awTmpFile.content)
    /\ awTarget' = File(SubSeq(awTmpFile.content, 1, Len(awTarget.content) + 1))
    /\ UNCHANGED <<awPc, awContent, awPrevious, awTmpFile>>

\* await fs.unlink(tmpFile).catch(() => {})
AwUnlink ==
    /\ awPc = "copyFile"
    /\ awTarget.content = awTmpFile.content
    /\ awTmpFile' = NoFile
    /\ awPc' = "done"
    /\ UNCHANGED <<awContent, awPrevious, awTarget>>

\* The process is killed before atomicWrite has returned.
AwKill ==
    /\ awPc \in {"mkdir", "writeFile", "copyFile"}
    /\ awPc' = "killed"
    /\ UNCHANGED <<awContent, awPrevious, awTarget, awTmpFile>>

(***************************************************************************)
(* Workflow engine: start, resume, linear and wave execution               *)
(*                                                                         *)
(* One process, one event loop. `session` is the SessionState object that  *)
(* start or resume builds and every phase mutates; the main task (start or *)
(* resume, then executePhase or executeWaves) and the phases of a wave     *)
(* (executeSinglePhase) run from one await to the next without             *)
(* interruption and interleave at the awaits that read or write shared     *)
(* state. A phase is named by its index in workflow.phases.                *)
(***************************************************************************)

NoId == ""

\* A WorkflowPhase: the fields of WorkflowPhaseSchema the engine reads.
Phase(id, gate, retry, next, decision, dependsOn) ==
    [id |-> id, gate |-> gate, retry |-> retry, next |-> next,
     decision |-> decision, dependsOn |-> dependsOn]

\* A session event. phase is NoId for the session's own events; exitCode
\* is the data.exitCode of PHASE_FAILED and 0 elsewhere.
Event(type, phase, exitCode) == [type |-> type, phase |-> phase, exitCode |-> exitCode]

\* events.filter(e => e.type === 'PHASE_COMPLETE').map(e => e.phase)
CompletedOrStarted(events) ==
    {events[k].phase : k \in {j \in DOMAIN events :
                                 events[j].type \in {"PHASE_COMPLETE", "PHASE_START"}}}
CompletedIn(events) ==
    {events[k].phase : k \in {j \in DOMAIN events : events[j].type = "PHASE_COMPLETE"}}

\* The last index that satisfies the predicate, not the first.
LastIndex(S) == IF S = {} THEN 0 ELSE CHOOSE i \in S : \A j \in S : i >= j
\* phases.findIndex(p => pred(p)): the first index, 0 for JavaScript's -1
FirstIndex(S) == IF S = {} THEN 0 ELSE CHOOSE i \in S : \A j \in S : i <= j
FindIndexById(phases, id) == FirstIndex({i \in DOMAIN phases : phases[i].id = id})

\* workflow.phases.some(p => p.dependsOn && p.dependsOn.length > 0)
HasDependsOn(phases) == \E i \in DOMAIN phases : phases[i].dependsOn # {}

\* Texts are sequences of characters.
ToLowerCase(s) ==
    [i \in DOMAIN s |-> IF s[i] = "O" THEN "o" ELSE IF s[i] = "K" THEN "k"
                        ELSE IF s[i] = "N" THEN "n" ELSE s[i]]
\* s.includes(k)
Includes(s, k) ==
    \E off \in 0..(Len(s) - Len(k)) : \A i \in 1..Len(k) : s[off + i] = k[i]

\* SessionStore.save up to its first await: the trim of session.events.
SaveSync(s) == [s EXCEPT !.events = TrimEvents(s.events, 0)]

\* session.events.push(event), followed by the call of this.store.save(session)
PushAndSave(s, event) == SaveSync([s EXCEPT !.events = Append(s.events, event)])

\* getMaxContextForRunner(config.project.runner) for the runners modelled
\* ("claude-code" is a key of RUNNER_CONTEXT_WINDOWS; "manual" is none and
\* shares a prefix with none, so it falls back to the default).
getMaxContextForRunner(r) == IF r = "claude-code" THEN 200000 ELSE DEFAULT_MAX_CONTEXT

\* preparePhase up to its first await: the session is marked with the phase,
\* promptCount grows, the bracket is derived, PHASE_START is pushed.
PrepareSync(s, phase, r) ==
    PushAndSave([s EXCEPT !.currentPhase = phase.id,
                          !.promptCount = s.promptCount + 1,
                          !.contextBracket =
                              getBracket(s.promptCount + 1, getMaxContextForRunner(r)).bracket],
                Event("PHASE_START", phase.id, 0))

\* A pause that records the gate and leaves the status as it is.
PauseKeepsRunning(s, phase) == PushAndSave(s, Event("GATE_PAUSE", phase.id, 0))
\* pauseAtGate up to its first await
PauseSync(s, phase) ==
    PushAndSave([s EXCEPT !.status = "paused"], Event("GATE_PAUSE", phase.id, 0))

\* handlePhaseFailed up to its first await
FailSync(s, phase, result) ==
    PushAndSave([s EXCEPT !.status = "failed"],
                Event("PHASE_FAILED", phase.id, result.exitCode))

\* A completion that pushes its event twice.
CompleteTwice(s, phase) ==
    PushAndSave(PushAndSave(s, Event("PHASE_COMPLETE", phase.id, 0)),
                Event("PHASE_COMPLETE", phase.id, 0))
\* completePhase up to its first await
CompleteSync(s, phase) == PushAndSave(s, Event("PHASE_COMPLETE", phase.id, 0))

\* A run that ends without setting the status.
SessionCompleteRunning(s) == PushAndSave(s, Event("SESSION_COMPLETE", NoId, 0))

\* The end of executePhase (no phase at the index) and of executeWaves.
SessionCompleteSync(s) ==
    PushAndSave([s EXCEPT !.status = "completed"], Event("SESSION_COMPLETE", NoId, 0))

\* while (result.exitCode !== 0 && attempt <= maxRetries), after attempt++
RetryOnceMore(result, attempt, maxRetries) ==
    result.exitCode # 0 /\ attempt <= maxRetries + 1
RetryAgain(result, attempt, maxRetries) ==
    result.exitCode # 0 /\ attempt <= maxRetries

\* The decision routing of executePhase: the index of the phase mapped by the
\* first key found in the output that names a phase; 0 when there is none.
DecidedIndex(phases, phase, output) ==
    IF output = <<>> THEN 0
    ELSE LET hits == {k \in DOMAIN phase.decision :
                         /\ Includes(ToLowerCase(output), ToLowerCase(phase.decision[k][1]))
                         /\ FindIndexById(phases, phase.decision[k][2]) > 0}
         IN  IF hits = {} THEN 0
             ELSE FindIndexById(phases, phase.decision[FirstIndex(hits)][2])

\* The sequential fallback alone: the next array index.
NextByArrayIndex(phases, phaseIndex, output) == phaseIndex + 1

\* The successor of a completed phase in linear mode: decision routing, then
\* the next pointer, then the next array index.
NextPhaseIndex(phases, phaseIndex, output) ==
    LET phase == phases[phaseIndex]
        decided == DecidedIndex(phases, phase, output)
        byNext == IF phase.next = NoId THEN 0 ELSE FindIndexById(phases, phase.next)
    IN  IF decided > 0 THEN decided
        ELSE IF byNext > 0 THEN byNext
        ELSE phaseIndex + 1

MaxRetry == 2
\* Executor outputs and decision keys.
Ok == <<"o", "k">>
No == <<"n", "o">>
Outputs == {<<>>, <<"O", "K">>, <<"n", "o", "k">>, <<"x">>}
NoDecision == <<>>

\* The workflow definitions the engine is run on.
LinearWorkflows ==
    {<< Phase("a", NoId, r, NoId, NoDecision, {}),
        Phase("b", NoId, 0, NoId, NoDecision, {}) >> : r \in 0..MaxRetry}
    \cup
    { << Phase("a", NoId, 0, NoId, NoDecision, {}),
         Phase("b", "user_approval", 0, NoId, NoDecision, {}) >>,
      << Phase("a", NoId, 0, "c", NoDecision, {}),
         Phase("b", NoId, 0, NoId, NoDecision, {}),
         Phase("c", NoId, 0, NoId, NoDecision, {}) >>,
      << Phase("a", NoId, 0, "c",
               << <<No, "c">>, <<Ok, "zz">>, <<<<"K">>, "b">>, <<<<>>, "b">> >>, {}),
         Phase("b", "auto_pass", 1, "zz", NoDecision, {}),
         Phase("c", NoId, 0, NoId, NoDecision, {}) >>,
      << >> }

WaveWorkflows ==
    { << Phase("a", NoId, 0, NoId, NoDecision, {}),
         Phase("b", NoId, 0, NoId, NoDecision, {}),
         Phase("c", NoId, 1, NoId, NoDecision, {"a", "b"}) >>,
      << Phase("a", NoId, 0, NoId, NoDecision, {}),
         Phase("b", "user_approval", 0, NoId, NoDecision, {}),
         Phase("c", NoId, 0, NoId, NoDecision, {"a"}) >>,
      << Phase("a", NoId, 0, NoId, NoDecision, {"b"}),
         Phase("b", NoId, 0, NoId, NoDecision, {"a"}) >> }

\* A chain of phases that ends at a user-approval gate, run in wave mode.
ChainWorkflow ==
    << Phase("a", NoId, 0, NoId, NoDecision, {}),
       Phase("b", NoId, 0, NoId, NoDecision, {"a"}),
       Phase("c", NoId, 0, NoId, NoDecision, {"b"}),
       Phase("d", "user_approval", 0, NoId, NoDecision, {"c"}) >>

\* A linear workflow whose last phase names the first one as its successor.
CycleWorkflow ==
    << Phase("a", NoId, 0, NoId, NoDecision, {}),
       Phase("b", NoId, 0, "a", NoDecision, {}) >>

\* The linear workflows without an approval gate.
UngatedWorkflows ==
    {w \in LinearWorkflows : \A i \in DOMAIN w : w[i].gate # "user_approval"}
    \cup {CycleWorkflow}

Runners == {"claude-code", "manual"}

\* The token counts an executor reports.
TokenCounts == {1}
\* What executor.run can return: a RunnerResult.
RunnerResults(exitCodes, outputs) ==
    [exitCode : exitCodes, tokensUsed : TokenCounts, output : outputs]

\* The result executePrompt builds when the executor is manual or throws.
ManualResult == [exitCode |-> 0, tokensUsed |-> 0, output |-> <<>>]
CrashResult == [exitCode |-> 1, tokensUsed |-> 0, output |-> <<>>]

MaxPrompts == 4

\* A linear workflow whose first phase points past the second at an approval
\* gate, and whose second phase points past the gate.
GateSkipWorkflow ==
    << Phase("a", NoId, 0, "c", NoDecision, {}),
       Phase("b", NoId, 0, "d", NoDecision, {}),
       Phase("c", "user_approval", 0, NoId, NoDecision, {}),
       Phase("d", NoId, 0, NoId, NoDecision, {}) >>
\* The linear workflows a session is resumed on.
ResumeWorkflows == (LinearWorkflows \ {<< >>}) \cup {CycleWorkflow, GateSkipWorkflow}
MaxResumeCalls == 2
ExitCodes == {0, 2}
\* The outputs tried for phase i: they matter to a phase with a decision map.
OutputsOf(i) == IF workflow[i].decision = NoDecision THEN {<<>>} ELSE Outputs
MaxLongResumes == 66
MaxLongPrompts == 80
MaxResumes == 1

NoSession ==
    [status |-> "idle", currentPhase |-> NoId, promptCount |-> 0,
     contextBracket |-> "FRESH", tokens |-> 0, events |-> <<>>]

\* The state shared by the initial states of the engine's specifications.
EnInitWith(workflows, runners) ==
    /\ workflow \in workflows
    /\ runner \in runners
    /\ session = NoSession
    /\ sessionFile = NoFile
    /\ handoffFile = NoFile
    /\ dashboard = NoFile
    /\ decisionLog = <<>>
    /\ run = "none"
    /\ mainPc = "idle"
    /\ mainContent = NoFile
    /\ nextIndex = 0
    /\ enWaves = <<>>
    /\ waveIndex = 0
    /\ completedPhases = {}
    /\ loadedEvents = <<>>
    /\ resumes = 0
    /\ wPc = [i \in DOMAIN workflow |-> "none"]
    /\ wAttempt = [i \in DOMAIN workflow |-> 0]
    /\ wResult = [i \in DOMAIN workflow |-> NoResult]
    /\ wContent = [i \in DOMAIN workflow |-> NoFile]
    /\ wInvocations = [i \in DOMAIN workflow |-> 0]
    /\ invocations = 0
    /\ error = "none"
    /\ handoffReads = 0

EnInit == EnInitWith(LinearWorkflows \cup WaveWorkflows, Runners)
EnLongInit == EnInitWith({ChainWorkflow}, {"claude-code"})
EnLinearInit == EnInitWith(UngatedWorkflows, Runners)
EnResumeInit == EnInitWith(ResumeWorkflows, Runners)
EnForwardInit == EnInitWith(ResumeWorkflows, Runners)

EnIdle ==
    /\ workflow = <<>>
    /\ runner = "manual"
    /\ session = NoSession
    /\ sessionFile = NoFile
    /\ handoffFile = NoFile
    /\ dashboard = NoFile
    /\ decisionLog = <<>>
    /\ run = "none"
    /\ mainPc = "returned"
    /\ mainContent = NoFile
    /\ nextIndex = 0
    /\ enWaves = <<>>
    /\ waveIndex = 0
    /\ completedPhases = {}
    /\ loadedEvents = <<>>
    /\ resumes = 0
    /\ wPc = <<>>
    /\ wAttempt = <<>>
    /\ wResult = <<>>
    /\ wContent = <<>>
    /\ wInvocations = <<>>
    /\ invocations = 0
    /\ error = "none"
    /\ handoffReads = 0

\* No phase is executing: the state of the phase tasks when a run begins.
ResetWorkers ==
    /\ wPc' = [i \in DOMAIN workflow |-> "none"]
    /\ wAttempt' = [i \in DOMAIN workflow |-> 0]
    /\ wResult' = [i \in DOMAIN workflow |-> NoResult]
    /\ wContent' = [i \in DOMAIN workflow |-> NoFile]
    /\ wInvocations' = [i \in DOMAIN workflow |-> 0]
    /\ UNCHANGED <<invocations, error, handoffReads>>

\* The phases of `wave` start: each runs preparePhase up to its first await,
\* in array order, when executeSinglePhase (or executePhase) is called.
RECURSIVE PrepareAll(_, _)
PrepareAll(s, wave) ==
    IF wave = <<>> THEN s
    ELSE PrepareAll(PrepareSync(s, workflow[Head(wave)], runner), Tail(wave))

StartPhases(s, wave, maxPrompts) ==
    /\ s.promptCount + Len(wave) <= maxPrompts
    /\ session' = PrepareAll(s, wave)
    /\ wPc' = [i \in DOMAIN workflow |-> IF i \in Range(wave) THEN "prepSer" ELSE "none"]
    /\ wAttempt' = [i \in DOMAIN workflow |-> 0]
    /\ wResult' = [i \in DOMAIN workflow |-> NoResult]
    /\ wContent' = [i \in DOMAIN workflow |-> NoFile]
    /\ wInvocations' = [i \in DOMAIN workflow |-> 0]
    /\ UNCHANGED <<invocations, error, handoffReads>>
    /\ mainPc' = "waiting"

\* Nothing is left to run: status completed, SESSION_COMPLETE, save.
FinishSession(s) ==
    /\ session' = SessionCompleteSync(s)
    /\ mainPc' = "completeSer"
    /\ ResetWorkers

\* executePhase(session, workflow, phaseIndex, ...) up to its first await
ExecutePhaseFrom(s, phaseIndex, maxPrompts) ==
    IF phaseIndex \in DOMAIN workflow
    THEN StartPhases(s, <<phaseIndex>>, maxPrompts)
    ELSE FinishSession(s)

\* A filter that leaves no phase of any wave to run.
PendingNone(wvs, completed, k) == <<>>
\* The phases of wave k that executeWaves runs.
PendingWave(wvs, completed, k) ==
    SelectSeq(wvs[k], LAMBDA i : workflow[i].id \notin completed)

\* The for loop of executeWaves from wave index wi on, up to its first await
ExecuteWavesFrom(s, wvs, completed, wi, maxPrompts) ==
    LET ks == {k \in wi..Len(wvs) : PendingWave(wvs, completed, k) # <<>>}
    IN  IF ks = {}
        THEN FinishSession(s) /\ waveIndex' = Len(wvs) + 1
        ELSE /\ StartPhases(s, PendingWave(wvs, completed, FirstIndex(ks)), maxPrompts)
             /\ waveIndex' = FirstIndex(ks)

\* The last statement of start and of resume: executeWaves or executePhase.
BeginExecution(s, phaseIndex, maxPrompts) ==
    IF HasDependsOn(workflow)
    THEN /\ enWaves' = calculateWaves(workflow)
         /\ completedPhases' = CompletedIn(s.events)
         /\ ExecuteWavesFrom(s, calculateWaves(workflow), CompletedIn(s.events), 1, maxPrompts)
    ELSE /\ ExecutePhaseFrom(s, phaseIndex, maxPrompts)
         /\ UNCHANGED <<enWaves, waveIndex, completedPhases>>

\* What the caller of start or resume gets when an awaited call rejects: the
\* first rejection settles the promise.
Rejected(err) ==
    /\ mainPc' = "rejected"
    /\ error' = IF error = "none" THEN err ELSE error

\* start(workflowId, config): the workflow is loaded, the session is built
\* and saved.
Start ==
    /\ mainPc = "idle"
    /\ run' = "start"
    /\ session' = SaveSync([status |-> "running",
                            currentPhase |-> IF workflow = <<>> THEN "init" ELSE workflow[1].id,
                            promptCount |-> 0, contextBracket |-> "FRESH", tokens |-> 0,
                            events |-> <<Event("SESSION_START", NoId, 0)>>])
    /\ mainPc' = "startSer"
    /\ UNCHANGED <<workflow, runner, sessionFile, handoffFile, dashboard, decisionLog,
                   mainContent, nextIndex, enWaves, waveIndex, completedPhases,
                   loadedEvents, resumes, wPc, wAttempt, wResult, wContent, wInvocations, invocations, error, handoffReads>>

\* save of the main task: JSON.stringify(session) after the await of mkdir
MainSerialize ==
    /\ mainPc \in {"startSer", "resumeSer", "resumeDoneSer", "completeSer"}
    /\ mainContent' = File(session)
    /\ mainPc' = CASE mainPc = "startSer" -> "startRen"
                   [] mainPc = "resumeSer" -> "resumeRen"
                   [] mainPc = "resumeDoneSer" -> "resumeDoneRen"
                   [] mainPc = "completeSer" -> "completeRen"
    /\ UNCHANGED <<workflow, runner, session, sessionFile, handoffFile, dashboard,
                   decisionLog, run, nextIndex, enWaves, waveIndex, completedPhases,
                   loadedEvents, resumes, wPc, wAttempt, wResult, wContent, wInvocations, invocations, error, handoffReads>>

\* save of the main task: atomicWrite renames its temp file to the session file
MainRename ==
    /\ mainPc \in {"startRen", "resumeRen", "resumeDoneRen", "completeRen"}
    /\ sessionFile' = mainContent
    /\ mainContent' = NoFile
    /\ mainPc' = CASE mainPc = "startRen" -> "startRecord"
                   [] mainPc = "resumeRen" -> "resumeExecute"
                   [] mainPc = "resumeDoneRen" -> "returned"
                   [] mainPc = "completeRen" -> "completePub"
    /\ UNCHANGED <<workflow, runner, session, handoffFile, dashboard, decisionLog, run,
                   nextIndex, enWaves, waveIndex, completedPhases, loadedEvents, resumes,
                   wPc, wAttempt, wResult, wContent, wInvocations, invocations, error, handoffReads>>

\* A decision as the engine records it.
Decision(log, title, phase) == [id |-> DecisionId(log), title |-> title, phase |-> phase]

\* start after its save: the decision "Started workflow" is recorded and the
\* execution begins.
StartExecute(maxPrompts) ==
    /\ mainPc = "startRecord"
    /\ decisionLog' = Append(decisionLog, Decision(decisionLog, "Started workflow", NoId))
    /\ BeginExecution(session, 1, maxPrompts)
    /\ UNCHANGED <<workflow, runner, sessionFile, handoffFile, dashboard, run, mainContent,
                   nextIndex, loadedEvents, resumes>>

\* The dashboard entry of the session: updateDashboard
DashboardEntry(s) ==
    File([status |-> s.status, phase |-> s.currentPhase, bracket |-> s.contextBracket,
          promptCount |-> s.promptCount, tokens |-> s.tokens])

\* The end of a run that completed the session: updateDashboard, then return.
CompletePublish ==
    /\ mainPc = "completePub"
    /\ dashboard' = DashboardEntry(session)
    /\ mainPc' = "returned"
    /\ UNCHANGED <<workflow, runner, session, sessionFile, handoffFile, decisionLog, run,
                   mainContent, nextIndex, enWaves, waveIndex, completedPhases,
                   loadedEvents, resumes, wPc, wAttempt, wResult, wContent, wInvocations, invocations, error, handoffReads>>

\* A resume that does not look at the status it loaded.
NeverCompleted(loaded) == FALSE
\* if (session.status === 'completed') of resume
IsCompleted(loaded) == loaded.status = "completed"

\* resume(sessionId, config) up to its first await after the load: a
\* completed session returns at once; otherwise the completed phases are
\* read off the event log and the session is saved, as completed when no
\* phase is left and as running, with SESSION_RESUME, when one is.
Resume(limit) ==
    /\ mainPc = "returned"
    /\ resumes < limit
    /\ sessionFile.exists
    /\ resumes' = resumes + 1
    /\ ResetWorkers
    /\ LET loaded == sessionFile.content
           completed == CompletedIn(loaded.events)
           next == FirstIndex({i \in DOMAIN workflow : workflow[i].id \notin completed})
       IN  IF IsCompleted(loaded)
           THEN /\ session' = loaded
                /\ run' = "resume-noop"
                /\ UNCHANGED <<mainPc, completedPhases, loadedEvents, nextIndex>>
           ELSE /\ run' = "resume"
                /\ completedPhases' = completed
                /\ loadedEvents' = loaded.events
                /\ nextIndex' = next
                /\ IF next = 0
                   THEN /\ session' = SaveSync([loaded EXCEPT !.status = "completed"])
                        /\ mainPc' = "resumeDoneSer"
                   ELSE /\ session' = PushAndSave([loaded EXCEPT !.status = "running"],
                                                  Event("SESSION_RESUME", NoId, 0))
                        /\ mainPc' = "resumeSer"
    /\ UNCHANGED <<workflow, runner, sessionFile, handoffFile, dashboard, decisionLog,
                   mainContent, enWaves, waveIndex>>

\* resume after its save: executeWaves, or executePhase at nextIndex
ResumeExecute(maxPrompts) ==
    /\ mainPc = "resumeExecute"
    /\ BeginExecution(session, nextIndex, maxPrompts)
    /\ UNCHANGED <<workflow, runner, sessionFile, handoffFile, dashboard, decisionLog, run,
                   mainContent, nextIndex, loadedEvents, resumes>>

\* The phase at index i of the workflow.
PhaseAt(i) == workflow[i]

\* A phase task's position after the JSON.stringify of its save.
AfterSerialize(pc) ==
    CASE pc = "prepSer" -> "prepRen"
      [] pc = "compSer" -> "compRen"
      [] pc = "gateSer" -> "gateRen"
      [] pc = "failSer" -> "failRen"

\* A phase task's position after the rename of its save.
AfterRename(pc) ==
    CASE pc = "prepRen" -> "compile"
      [] pc = "compRen" -> "compPub"
      [] pc = "gateRen" -> "gatePub"
      [] pc = "failRen" -> "failPub"

\* save of phase i: JSON.stringify(session) after the await of mkdir. No
\* lock is taken: the text is the session as it is at this moment.
WorkerSerialize(i) ==
    /\ wPc[i] \in {"prepSer", "compSer", "gateSer", "failSer"}
    /\ wContent' = [wContent EXCEPT ![i] = File(session)]
    /\ wPc' = [wPc EXCEPT ![i] = AfterSerialize(wPc[i])]
    /\ UNCHANGED <<workflow, runner, session, sessionFile, handoffFile, dashboard,
                   decisionLog, run, mainPc, mainContent, nextIndex, enWaves, waveIndex,
                   completedPhases, loadedEvents, resumes, wAttempt, wResult, wInvocations, invocations, error, handoffReads>>

\* save of phase i: atomicWrite renames its temp file to the session file
WorkerRename(i) ==
    /\ wPc[i] \in {"prepRen", "compRen", "gateRen", "failRen"}
    /\ sessionFile' = wContent[i]
    /\ wContent' = [wContent EXCEPT ![i] = NoFile]
    /\ wPc' = [wPc EXCEPT ![i] = AfterRename(wPc[i])]
    /\ UNCHANGED <<workflow, runner, session, handoffFile, dashboard, decisionLog, run,
                   mainPc, mainContent, nextIndex, enWaves, waveIndex, completedPhases,
                   loadedEvents, resumes, wAttempt, wResult, wInvocations, invocations, error, handoffReads>>

\* if (phase.gate === 'user_approval')
GateNever(phase) == FALSE
IsApprovalGate(phase) == phase.gate = "user_approval"

\* compile: if (bracket.includeSessionHistory) the handoff file is read by
\* consumeContinueHere, which leaves the file where it is.
ReadsHandoff(promptCount, r, file) ==
    /\ getBracket(promptCount, getMaxContextForRunner(r)).includeSessionHistory
    /\ file.exists

\* Phase i after preparePhase's save: the prompt is compiled; a
\* user_approval gate pauses the session, any other phase goes on to
\* executeWithRetry with attempt = 0.
Compile(i) ==
    /\ wPc[i] = "compile"
    /\ IF IsApprovalGate(PhaseAt(i))
       THEN /\ session' = PauseSync(session, PhaseAt(i))
            /\ wPc' = [wPc EXCEPT ![i] = "gateSer"]
       ELSE /\ wPc' = [wPc EXCEPT ![i] = "exec"]
            /\ UNCHANGED session
    /\ wAttempt' = [wAttempt EXCEPT ![i] = 0]
    /\ handoffReads' = IF ReadsHandoff(session.promptCount, runner, handoffFile)
                       THEN handoffReads + 1
                       ELSE handoffReads
    /\ UNCHANGED <<workflow, runner, sessionFile, handoffFile, dashboard, decisionLog, run,
                   mainPc, mainContent, nextIndex, enWaves, waveIndex, completedPhases,
                   loadedEvents, resumes, wResult, wContent, wInvocations, invocations, error>>

\* executePrompt with the manual executor: no run, a result with exit code 0
ExecManual(i) ==
    /\ wPc[i] = "exec"
    /\ runner = "manual"
    /\ wResult' = [wResult EXCEPT ![i] = Returned(ManualResult)]
    /\ wPc' = [wPc EXCEPT ![i] = "result"]
    /\ UNCHANGED <<workflow, runner, session, sessionFile, handoffFile, dashboard,
                   decisionLog, run, mainPc, mainContent, nextIndex, enWaves, waveIndex,
                   completedPhases, loadedEvents, resumes, wAttempt, wContent, wInvocations, invocations, error, handoffReads>>

\* executePrompt: executor.run is invoked
ExecSpawn(i) ==
    /\ wPc[i] = "exec"
    /\ runner # "manual"
    /\ wInvocations' = [wInvocations EXCEPT ![i] = wInvocations[i] + 1]
    /\ invocations' = invocations + 1
    /\ UNCHANGED <<error, handoffReads>>
    /\ wPc' = [wPc EXCEPT ![i] = "running"]
    /\ UNCHANGED <<workflow, runner, session, sessionFile, handoffFile, dashboard,
                   decisionLog, run, mainPc, mainContent, nextIndex, enWaves, waveIndex,
                   completedPhases, loadedEvents, resumes, wAttempt, wResult, wContent>>

\* executePrompt: executor.run resolves; the session's tokens grow
ExecReturn(i, exitCodes, outputs) ==
    /\ wPc[i] = "running"
    /\ \E result \in RunnerResults(exitCodes, outputs) :
          /\ session' = [session EXCEPT !.tokens = session.tokens + result.tokensUsed]
          /\ wResult' = [wResult EXCEPT ![i] = Returned(result)]
    /\ wPc' = [wPc EXCEPT ![i] = "result"]
    /\ UNCHANGED <<workflow, runner, sessionFile, handoffFile, dashboard, decisionLog, run,
                   mainPc, mainContent, nextIndex, enWaves, waveIndex, completedPhases,
                   loadedEvents, resumes, wAttempt, wContent, wInvocations, invocations, error, handoffReads>>

\* executePrompt: executor.run throws; the catch block builds the result
ExecThrow(i) ==
    /\ wPc[i] = "running"
    /\ wResult' = [wResult EXCEPT ![i] = Returned(CrashResult)]
    /\ wPc' = [wPc EXCEPT ![i] = "result"]
    /\ UNCHANGED <<workflow, runner, session, sessionFile, handoffFile, dashboard,
                   decisionLog, run, mainPc, mainContent, nextIndex, enWaves, waveIndex,
                   completedPhases, loadedEvents, resumes, wAttempt, wContent, wInvocations, invocations, error, handoffReads>>

\* executeWithRetry after executePrompt returned: attempt++, the loop test,
\* and after the loop handlePhaseFailed or completePhase up to their save.
AfterResult(i) ==
    /\ wPc[i] = "result"
    /\ wAttempt' = [wAttempt EXCEPT ![i] = wAttempt[i] + 1]
    /\ LET result == wResult[i].value
       IN  IF RetryAgain(result, wAttempt[i] + 1, PhaseAt(i).retry)
           THEN /\ wPc' = [wPc EXCEPT ![i] = "exec"]
                /\ UNCHANGED session
           ELSE IF result.exitCode # 0
                THEN /\ session' = FailSync(session, PhaseAt(i), result)
                     /\ wPc' = [wPc EXCEPT ![i] = "failSer"]
                ELSE /\ session' = CompleteSync(session, PhaseAt(i))
                     /\ wPc' = [wPc EXCEPT ![i] = "compSer"]
    /\ UNCHANGED <<workflow, runner, sessionFile, handoffFile, dashboard, decisionLog, run,
                   mainPc, mainContent, nextIndex, enWaves, waveIndex, completedPhases,
                   loadedEvents, resumes, wResult, wContent, wInvocations, invocations, error, handoffReads>>

\* The handoff file generateContinueHere writes.
Handoff(s, reason) ==
    File([reason |-> reason, phase |-> s.currentPhase, tokens |-> s.tokens,
          events |-> Len(s.events), completed |-> CompletedIn(s.events)])

\* Phase i after the save of completePhase, pauseAtGate or handlePhaseFailed:
\* updateDashboard, and for a pause or a failure the handoff file and the
\* decision record. The phase resolves: false after completePhase, true
\* (stopped) otherwise.
Publish(i) ==
    /\ wPc[i] \in {"compPub", "gatePub", "failPub"}
    /\ dashboard' = DashboardEntry(session)
    /\ IF wPc[i] = "compPub"
       THEN /\ wPc' = [wPc EXCEPT ![i] = "completed"]
            /\ UNCHANGED <<handoffFile, decisionLog, handoffReads>>
       ELSE /\ wPc' = [wPc EXCEPT ![i] = "stopped"]
            /\ handoffFile' = Handoff(session, IF wPc[i] = "gatePub" THEN "paused" ELSE "failed")
            /\ handoffReads' = 0
            /\ decisionLog' = Append(decisionLog,
                                     Decision(decisionLog,
                                              IF wPc[i] = "gatePub" THEN "Gate" ELSE "Failed",
                                              PhaseAt(i).id))
    /\ UNCHANGED <<workflow, runner, session, sessionFile, run, mainPc, mainContent,
                   nextIndex, enWaves, waveIndex, completedPhases, loadedEvents, resumes,
                   wAttempt, wResult, wContent, wInvocations, invocations, error>>

\* Phase i after its save, a write failing: updateDashboard's atomicWrite
\* throws ("dashboard"), or the dashboard and the handoff file are written and
\* decisions.record throws ("decision"). Neither call is in a try block.
PublishThrow(i, what) ==
    /\ wPc[i] \in {"compPub", "gatePub", "failPub"}
    /\ what = "decision" => wPc[i] # "compPub"
    /\ wPc' = [wPc EXCEPT ![i] = "threw"]
    /\ IF what = "dashboard"
       THEN UNCHANGED <<dashboard, handoffFile, handoffReads>>
       ELSE /\ dashboard' = DashboardEntry(session)
            /\ handoffFile' = Handoff(session, IF wPc[i] = "gatePub" THEN "paused" ELSE "failed")
            /\ handoffReads' = 0
    /\ Rejected(what)
    /\ UNCHANGED <<workflow, runner, session, sessionFile, decisionLog, run, mainContent,
                   nextIndex, enWaves, waveIndex, completedPhases, loadedEvents, resumes,
                   wAttempt, wResult, wContent, wInvocations, invocations>>

\* save of phase i: atomicWrite throws; the session file stays as it was.
WorkerWriteThrow(i) ==
    /\ wPc[i] \in {"prepRen", "compRen", "gateRen", "failRen"}
    /\ wContent' = [wContent EXCEPT ![i] = NoFile]
    /\ wPc' = [wPc EXCEPT ![i] = "threw"]
    /\ Rejected("session")
    /\ UNCHANGED <<workflow, runner, session, sessionFile, handoffFile, dashboard,
                   decisionLog, run, mainContent, nextIndex, enWaves, waveIndex,
                   completedPhases, loadedEvents, resumes, wAttempt, wResult, wInvocations,
                   invocations, handoffReads>>

\* save of the main task: atomicWrite throws; the session file stays as it was.
MainWriteThrow ==
    /\ mainPc \in {"startRen", "resumeRen", "resumeDoneRen", "completeRen"}
    /\ mainContent' = NoFile
    /\ Rejected("session")
    /\ UNCHANGED <<workflow, runner, session, sessionFile, handoffFile, dashboard,
                   decisionLog, run, nextIndex, enWaves, waveIndex, completedPhases,
                   loadedEvents, resumes, wPc, wAttempt, wResult, wContent, wInvocations,
                   invocations, handoffReads>>

\* start after its save: decisions.record throws; nothing is executed.
StartRecordThrow ==
    /\ mainPc = "startRecord"
    /\ Rejected("decision")
    /\ UNCHANGED <<workflow, runner, session, sessionFile, handoffFile, dashboard,
                   decisionLog, run, mainContent, nextIndex, enWaves, waveIndex,
                   completedPhases, loadedEvents, resumes, wPc, wAttempt, wResult, wContent,
                   wInvocations, invocations, handoffReads>>

\* The end of a run that completed the session: updateDashboard throws.
CompletePublishThrow ==
    /\ mainPc = "completePub"
    /\ Rejected("dashboard")
    /\ UNCHANGED <<workflow, runner, session, sessionFile, handoffFile, dashboard,
                   decisionLog, run, mainContent, nextIndex, enWaves, waveIndex,
                   completedPhases, loadedEvents, resumes, wPc, wAttempt, wResult, wContent,
                   wInvocations, invocations, handoffReads>>

\* start: loader.load throws (no workflow file of that id, or a malformed
\* one) before the session is built.
StartThrow ==
    /\ mainPc = "idle"
    /\ run' = "start"
    /\ Rejected("workflow")
    /\ UNCHANGED <<workflow, runner, session, sessionFile, handoffFile, dashboard,
                   decisionLog, mainContent, nextIndex, enWaves, waveIndex, completedPhases,
                   loadedEvents, resumes, wPc, wAttempt, wResult, wContent, wInvocations,
                   invocations, handoffReads>>

\* preparePhase of phase i: compiler.compile throws, resolveComponent finding
\* no file for the agent or the task of the phase.
CompileThrow(i) ==
    /\ wPc[i] = "compile"
    /\ wPc' = [wPc EXCEPT ![i] = "threw"]
    /\ Rejected("component")
    /\ UNCHANGED <<workflow, runner, session, sessionFile, handoffFile, dashboard,
                   decisionLog, run, mainContent, nextIndex, enWaves, waveIndex,
                   completedPhases, loadedEvents, resumes, wAttempt, wResult, wContent,
                   wInvocations, invocations, handoffReads>>

\* The phases the main task awaits.
Dispatched == {i \in DOMAIN workflow : wPc[i] # "none"}
Resolved == {i \in DOMAIN workflow : wPc[i] \in {"completed", "stopped"}}

\* executePhase after completePhase: a stopped phase ends the run; a
\* completed one is followed by its successor (decision, next, index + 1).
LinearAdvance(maxPrompts) ==
    /\ mainPc = "waiting"
    /\ ~HasDependsOn(workflow)
    /\ \E i \in Resolved :
          IF wPc[i] = "stopped"
          THEN /\ mainPc' = "returned"
               /\ UNCHANGED <<session, wPc, wAttempt, wResult, wContent, wInvocations, invocations, error, handoffReads>>
          ELSE ExecutePhaseFrom(session,
                                NextPhaseIndex(workflow, i, wResult[i].value.output),
                                maxPrompts)
    /\ UNCHANGED <<workflow, runner, sessionFile, handoffFile, dashboard, decisionLog, run,
                   mainContent, nextIndex, enWaves, waveIndex, completedPhases,
                   loadedEvents, resumes>>

\* A wave that is left as soon as one of its phases has resolved.
WaveRaced(dispatched, resolved) == resolved # {}
\* await Promise.all(wave.map(...)): every dispatched phase has resolved
WaveSettled(dispatched, resolved) == dispatched = resolved

\* A wave whose stops are not looked at.
NoneStopped(S) == FALSE
\* results.some(stopped => stopped), and `if (stopped) return` for one phase
SomeStopped(S) == \E i \in S : wPc[i] = "stopped"

\* executeWaves after the await of a wave: every phase of the wave has
\* resolved; a stopped phase ends the run, otherwise the loop goes on.
WaveAdvance(maxPrompts) ==
    /\ mainPc = "waiting"
    /\ HasDependsOn(workflow)
    /\ Dispatched # {}
    /\ WaveSettled(Dispatched, Resolved)
    /\ IF SomeStopped(Resolved)
       THEN /\ mainPc' = "returned"
            /\ UNCHANGED <<session, waveIndex, wPc, wAttempt, wResult, wContent, wInvocations, invocations, error, handoffReads>>
       ELSE ExecuteWavesFrom(session, enWaves, completedPhases, waveIndex + 1, maxPrompts)
    /\ UNCHANGED <<workflow, runner, sessionFile, handoffFile, dashboard, decisionLog, run,
                   mainContent, nextIndex, enWaves, completedPhases, loadedEvents, resumes>>

(***************************************************************************)
(* Session manager: crash detection                                        *)
(***************************************************************************)

DEFAULT_CRASH_MINUTES == 30

\* Time is counted in ticks of half a minute (30000 ms).
TicksPerMinute == 2

\* An optional value: absent, or present with value v.
None == [present |-> FALSE]
Some(v) == [present |-> TRUE, value |-> v]

\* detectCrashedSession returns null, or a CrashInfo.
NoCrash == [crashed |-> FALSE]
CrashInfo(lastActivity, minutes) ==
    [crashed |-> TRUE, lastActivity |-> lastActivity, minutesSinceActivity |-> minutes]

\* A detector that looks at startedAt only.
StartedAtOf(s) == s.startedAt
\* session.lastActivity || session.startedAt
LastActivityOf(s) == IF s.lastActivity.present THEN s.lastActivity.value ELSE s.startedAt

\* ['completed', 'paused', 'failed', 'idle']
ExemptStatuses == {"completed", "paused", "failed", "idle"}

detectCrashedSession(s, crashMinutes, now) ==
    IF s.status \in ExemptStatuses THEN NoCrash
    ELSE LET threshold == IF crashMinutes.present THEN crashMinutes.value
                          ELSE DEFAULT_CRASH_MINUTES
             lastActivity == LastActivityOf(s)
             elapsed == now - lastActivity
             minutes == elapsed \div TicksPerMinute
         IN  IF minutes < threshold THEN NoCrash
             ELSE CrashInfo(lastActivity, minutes)

\* The sessions looked at go back MaxMinutes minutes; thresholds up to
\* MaxCrashMinutes minutes are configured.
MaxMinutes == 61
MaxCrashMinutes == 31

\* Date.now() of the call, in ticks.
CsNow == MaxMinutes * TicksPerMinute

SessionStatuses == {"idle", "running", "paused", "completed", "failed"}

\* startedAt: 60, 30, 10 or 0 minutes before the call.
StartTimes == {CsNow - k * TicksPerMinute : k \in {60, 30, 10, 0}}

\* lastActivity is absent, or any tick from the horizon to one tick after
\* the call (a clock that was set back).
CsInit ==
    /\ csSession \in [status : SessionStatuses,
                       lastActivity : {None} \cup {Some(t) : t \in 0..(CsNow + 1)},
                       startedAt : StartTimes]
    /\ csCrashMinutes \in {None} \cup {Some(k) : k \in 0..MaxCrashMinutes}
    /\ csResult = NoResult

CsIdle ==
    /\ csSession = [status |-> "idle", lastActivity |-> None, startedAt |-> 0]
    /\ csCrashMinutes = None
    /\ csResult = NoResult

DetectCrashedSessionCall ==
    /\ csResult = NoResult
    /\ csResult' = Returned(detectCrashedSession(csSession, csCrashMinutes, CsNow))
    /\ UNCHANGED <<csSession, csCrashMinutes>>

(***************************************************************************)
(* Session continuity: the handoff document                                *)
(***************************************************************************)

\* An event as generateContinueHere reads it: the engine's events carry
\* their phase, the STEP_COMPLETE events of `report --status completed` and
\* of the server carry data.step and data.status = 'completed'.
PhaseEvent(type, phase) == [type |-> type, phase |-> phase, step |-> ""]
StepComplete(step) == [type |-> "STEP_COMPLETE", phase |-> "", step |-> step]

\* events.filter(PHASE_COMPLETE, or STEP_COMPLETE with status completed)
\*       .map(e => e.phase || e.data?.step).filter(Boolean)
CompletedPhaseIds(events) ==
    {IF e.phase # "" THEN e.phase ELSE e.step :
        e \in {x \in Range(events) : x.type \in {"PHASE_COMPLETE", "STEP_COMPLETE"}}} \ {""}

\* The document: the checked lines (phases by index, shown by id), the
\* unchecked lines (shown by name), and the next action: a resume
\* instruction for the phase session.currentPhase names, or "all phases
\* completed" when it names none.
generateContinueHere(s, phases) ==
    LET completedIds == CompletedPhaseIds(s.events)
        all == [i \in 1..Len(phases) |-> i]
        current == {i \in 1..Len(phases) : phases[i].id = s.currentPhase}
    IN  [completedLines |-> SelectSeq(all, LAMBDA i : phases[i].id \in completedIds),
         remainingLines |-> SelectSeq(all, LAMBDA i : phases[i].id \notin completedIds),
         nextAction |-> IF current # {}
                        THEN [kind |-> "resume",
                              phase |-> CHOOSE i \in current : \A j \in current : i <= j]
                        ELSE [kind |-> "allCompleted"]]

MaxHandoffPhases == 2
MaxHandoffEvents == 2

\* A name report --step gives the current phase that is no phase id.
StepName == "Done"

HandoffEvents(n) ==
    {PhaseEvent(t, PhaseIds[i]) : t \in {"PHASE_START", "PHASE_COMPLETE", "GATE_PAUSE"},
                                  i \in 1..n}
        \cup {StepComplete(x) : x \in {PhaseIds[i] : i \in 1..n} \cup {StepName}}

\* A workflow of n phases with the ids PhaseIds[1..n], a session whose
\* currentPhase is one of them or a step name, and its event log.
ChInit ==
    /\ \E n \in 1..MaxHandoffPhases :
          /\ chPhases = [i \in 1..n |-> [id |-> PhaseIds[i]]]
          /\ \E len \in 0..MaxHandoffEvents :
                chSession \in [currentPhase : {PhaseIds[i] : i \in 1..n} \cup {StepName},
                               events : [1..len -> HandoffEvents(n)]]
    /\ chResult = NoResult

ChIdle == chPhases = <<>> /\ chSession = [currentPhase |-> "", events |-> <<>>] /\ chResult = NoResult

GenerateContinueHereCall ==
    /\ chResult = NoResult
    /\ chResult' = Returned(generateContinueHere(chSession, chPhases))
    /\ UNCHANGED <<chPhases, chSession>>


(***************************************************************************)
(* Context tracker: token estimation                                       *)
(*                                                                         *)
(* A text is a sequence of characters. One character stands for each class *)
(* the estimator tells apart.                                              *)
(***************************************************************************)

LowerChar == "a"
UpperChar == "Z"
DigitChar == "7"
Chars == {LowerChar, UpperChar, DigitChar, "_", " ", "\n", ";", "é"}

\* \s
IsSpace(c) == c \in {" ", "\n"}
\* [a-zA-Z0-9_]
IsWordChar(c) == c \in {LowerChar, UpperChar, DigitChar, "_"}

\* Math.ceil(a / b) for a >= 0, b > 0
CeilDiv(a, b) == (a + b - 1) \div b

\* The regular expressions estimateTokens calls test on, each with the
\* lastIndex a RegExp object carries.
RegexNames == {"whitespace", "symbol", "digits"}
FreshRegex == [r \in RegexNames |-> 0]

\* test of a regular expression with the g flag: the match starts at
\* lastIndex, and lastIndex is left behind the match.
TestGlobal(matches, len, lastIndex) ==
    IF lastIndex = 0 /\ matches THEN [result |-> TRUE, lastIndex |-> len]
    ELSE [result |-> FALSE, lastIndex |-> 0]
\* test of a regular expression without the g or y flag: lastIndex is neither
\* read nor written.
RegexTest(matches, len, lastIndex) == [result |-> matches, lastIndex |-> lastIndex]

\* The length of the longest prefix of s whose characters all belong to cls.
RECURSIVE PrefixLen(_, _)
PrefixLen(s, cls) ==
    IF s = <<>> THEN 0
    ELSE IF s[1] \notin cls THEN 0
    ELSE 1 + PrefixLen(Tail(s), cls)

\* text.split(sep) for a one-character separator
RECURSIVE SplitOn(_, _)
SplitOn(s, sep) ==
    LET k == PrefixLen(s, Chars \ {sep})
    IN  IF k = Len(s) THEN <<s>>
        ELSE <<SubSeq(s, 1, k)>> \o SplitOn(SubSeq(s, k + 2, Len(s)), sep)

\* line.split(/(\s+)/) without its empty strings: the runs of whitespace and
\* the runs of other characters, in order.
RECURSIVE Segments(_)
Segments(line) ==
    IF line = <<>> THEN <<>>
    ELSE LET spaces == {c \in Chars : IsSpace(c)}
             k == IF IsSpace(line[1]) THEN PrefixLen(line, spaces)
                  ELSE PrefixLen(line, Chars \ spaces)
         IN  <<SubSeq(line, 1, k)>> \o Segments(SubSeq(line, k + 1, Len(line)))

\* seg.split(/([^a-zA-Z0-9_])/) without its empty strings: the runs of word
\* characters, and every other character on its own.
RECURSIVE Parts(_)
Parts(seg) ==
    IF seg = <<>> THEN <<>>
    ELSE LET k == IF IsWordChar(seg[1])
                  THEN PrefixLen(seg, {c \in Chars : IsWordChar(c)})
                  ELSE 1
         IN  <<SubSeq(seg, 1, k)>> \o Parts(SubSeq(seg, k + 1, Len(seg)))

\* word.split(/(?=[A-Z][a-z])/): the lengths of the pieces, a new piece
\* starting at every upper-case letter that a lower-case letter follows.
RECURSIVE CamelParts(_, _)
CamelParts(word, from) ==
    LET cuts == {k \in (from + 1)..(Len(word) - 1) :
                    word[k] = UpperChar /\ word[k + 1] = LowerChar}
    IN  IF cuts = {} THEN <<Len(word) - from + 1>>
        ELSE LET k == CHOOSE c \in cuts : \A d \in cuts : c <= d
             IN  <<k - from>> \o CamelParts(word, k)

RECURSIVE SumPieces(_)
SumPieces(lens) ==
    IF lens = <<>> THEN 0
    ELSE (IF Head(lens) <= 6 THEN 1 ELSE CeilDiv(Head(lens), 5)) + SumPieces(Tail(lens))

estimateWordTokens(word) ==
    LET len == Len(word)
        camelParts == CamelParts(word, 1)
        snakeParts == SelectSeq([i \in 1..Len(SplitOn(word, "_")) |-> Len(SplitOn(word, "_")[i])],
                                LAMBDA n : n > 0)
    IN  IF len = 0 THEN 0
        ELSE IF len <= 6 THEN 1
        ELSE IF Len(camelParts) > 1 THEN SumPieces(camelParts)
        ELSE IF \E i \in 1..len : word[i] = "_" THEN SumPieces(snakeParts)
        ELSE IF len <= 10 THEN 2
        ELSE CeilDiv(len, 5)

\* The loop over the parts of a segment. acc holds the tokens counted so
\* far and the lastIndex of the regular expressions.
RECURSIVE PartsLoop(_, _)
PartsLoop(parts, acc) ==
    IF parts = <<>> THEN acc
    ELSE LET part == Head(parts)
             symbol == IF Len(part) = 1
                       THEN RegexTest(~IsWordChar(part[1]), 1, acc.regex["symbol"])
                       ELSE [result |-> FALSE, lastIndex |-> acc.regex["symbol"]]
             digits == IF symbol.result
                       THEN [result |-> FALSE, lastIndex |-> acc.regex["digits"]]
                       ELSE RegexTest(\A i \in 1..Len(part) : part[i] = DigitChar,
                                      Len(part), acc.regex["digits"])
             regex == [acc.regex EXCEPT !["symbol"] = symbol.lastIndex,
                                        !["digits"] = digits.lastIndex]
             nonAscii == Cardinality({i \in 1..Len(part) : part[i] = "é"})
             added == IF symbol.result THEN 1
                      ELSE IF digits.result THEN Max(1, CeilDiv(Len(part), 3))
                      ELSE IF nonAscii > 0
                           THEN nonAscii * 2
                                + estimateWordTokens(SelectSeq(part, LAMBDA c : c # "é"))
                      ELSE estimateWordTokens(part)
         IN  PartsLoop(Tail(parts), [tokens |-> acc.tokens + added, regex |-> regex])

\* The loop over the segments of a line.
RECURSIVE SegmentsLoop(_, _)
SegmentsLoop(segs, acc) ==
    IF segs = <<>> THEN acc
    ELSE LET seg == Head(segs)
             white == RegexTest(\A i \in 1..Len(seg) : IsSpace(seg[i]), Len(seg),
                                acc.regex["whitespace"])
             regex == [acc.regex EXCEPT !["whitespace"] = white.lastIndex]
         IN  IF white.result
             THEN SegmentsLoop(Tail(segs),
                               [tokens |-> acc.tokens + Max(1, CeilDiv(Len(seg), 4)),
                                regex |-> regex])
             ELSE SegmentsLoop(Tail(segs),
                               PartsLoop(Parts(seg), [tokens |-> acc.tokens, regex |-> regex]))

\* The loop over the lines of the text.
RECURSIVE LinesLoop(_, _)
LinesLoop(lines, acc) ==
    IF lines = <<>> THEN acc
    ELSE LinesLoop(Tail(lines), SegmentsLoop(Segments(Head(lines)), acc))

\* estimateTokens(text), called when the regular expressions are in state
\* regex: the number returned and the state they are left in.
estimateTokens(text, regex) ==
    IF text = <<>> THEN [tokens |-> 0, regex |-> regex]
    ELSE LET lines == SplitOn(text, "\n")
         IN  LinesLoop(lines, [tokens |-> Len(lines) - 1, regex |-> regex])

MaxTextLen == 3
MaxOtherLen == 0
MaxCalls == 3

TextsUpTo(n) == UNION {[1..k -> Chars] : k \in 0..n}

\* Longer texts: a CamelCase word, a snake_case word, a long number, a long
\* plain word, and a line of code.
SampleTexts ==
    { <<"a", "a", "a", "Z", "a", "a", "a", "a", "Z", "a", "a", "a", "a", "a", "a", "a">>,
      <<"a", "a", "a", "a", "_", "a", "a", "a", "a", "a", "a", "a">>,
      <<"7", "7", "7", "7", "7", "7", "7">>,
      <<"a", "a", "a", "a", "a", "a", "a", "a", "a", "a", "a">>,
      <<"a", "a", " ", " ", " ", " ", " ", "Z", ";", "\n", "7", "é", "a">> }

EtInit ==
    /\ etText \in TextsUpTo(MaxTextLen) \cup SampleTexts
    /\ etRegex = FreshRegex
    /\ etFirst = NoResult
    /\ etLast = NoResult
    /\ etCalls = <<>>

EtIdle ==
    /\ etText = <<>>
    /\ etRegex = FreshRegex
    /\ etFirst = NoResult
    /\ etLast = NoResult
    /\ etCalls = <<>>

\* estimateTokens(etText) is called.
EstimateTokensCall ==
    /\ Len(etCalls) < MaxCalls
    /\ LET r == estimateTokens(etText, etRegex)
       IN  /\ etLast' = Returned(r.tokens)
           /\ etFirst' = IF etFirst.returned THEN etFirst ELSE Returned(r.tokens)
           /\ etRegex' = r.regex
    /\ etCalls' = Append(etCalls, "text")
    /\ UNCHANGED etText

\* estimateTokens is called on some other text.
EstimateTokensOther ==
    /\ Len(etCalls) < MaxCalls
    /\ \E other \in TextsUpTo(MaxOtherLen) \cup SampleTexts :
          etRegex' = estimateTokens(other, etRegex).regex
    /\ etCalls' = Append(etCalls, "other")
    /\ UNCHANGED <<etText, etFirst, etLast>>

(***************************************************************************)
(* Workflow engine: the backoff of executeWithRetry                        *)
(***************************************************************************)

\* Math.min(1000 * Math.pow(2, attempt - 1), 30_000)
BackoffUncapped(attempt) == 1000 * 2 ^ (attempt - 1)
BackoffMs(attempt) == Min(1000 * 2 ^ (attempt - 1), 30000)

MaxBackoffRetries == 7

BkInit ==
    /\ bkMaxRetries \in 0..MaxBackoffRetries
    /\ bkAttempt = 0
    /\ bkPc = "loop"
    /\ bkSleeps = <<>>
    /\ bkExitCode = 0

BkIdle ==
    /\ bkMaxRetries = 0
    /\ bkAttempt = 0
    /\ bkPc = "done"
    /\ bkSleeps = <<>>
    /\ bkExitCode = 0

\* The top of the do loop: if (attempt > 0) the backoff is waited.
BackoffSleep ==
    /\ bkPc = "loop"
    /\ bkSleeps' = IF bkAttempt > 0 THEN Append(bkSleeps, BackoffMs(bkAttempt)) ELSE bkSleeps
    /\ bkPc' = "run"
    /\ UNCHANGED <<bkMaxRetries, bkAttempt, bkExitCode>>

\* executePrompt returns; attempt++; the loop test.
BackoffAttempt(exitCodes) ==
    /\ bkPc = "run"
    /\ \E e \in exitCodes :
          /\ bkExitCode' = e
          /\ bkPc' = IF RetryAgain([exitCode |-> e], bkAttempt + 1, bkMaxRetries)
                     THEN "loop" ELSE "done"
    /\ bkAttempt' = bkAttempt + 1
    /\ UNCHANGED <<bkMaxRetries, bkSleeps>>

(***************************************************************************)
(* Specifications                                                          *)
(***************************************************************************)

SpecBracketInit == BrInit /\ TbIdle /\ CwIdle /\ StIdle /\ LkIdle /\ AwIdle /\ EnIdle /\ CsIdle /\ ChIdle /\ EtIdle /\ BkIdle
SpecBracketNext == GetBracketCall /\ UNCHANGED <<tbVars, cwVars, stVars, lkVars, awVars, enVars, csVars, chVars, etVars, bkVars>>

SpecBudgetInit == BrIdle /\ TbInit /\ CwIdle /\ StIdle /\ LkIdle /\ AwIdle /\ EnIdle /\ CsIdle /\ ChIdle /\ EtIdle /\ BkIdle
SpecBudgetNext == EnforceTokenBudgetCall /\ UNCHANGED <<brVars, cwVars, stVars, lkVars, awVars, enVars, csVars, chVars, etVars, bkVars>>

SpecWavesInit == BrIdle /\ TbIdle /\ CwInit /\ StIdle /\ LkIdle /\ AwIdle /\ EnIdle /\ CsIdle /\ ChIdle /\ EtIdle /\ BkIdle
SpecWavesNext == CalculateWavesCall /\ UNCHANGED <<brVars, tbVars, stVars, lkVars, awVars, enVars, csVars, chVars, etVars, bkVars>>

SpecStoreInit == BrIdle /\ TbIdle /\ CwIdle /\ StInit /\ LkIdle /\ AwIdle /\ EnIdle /\ CsIdle /\ ChIdle /\ EtIdle /\ BkIdle
SpecStoreNext ==
    \/ StorePush /\ UNCHANGED <<brVars, tbVars, cwVars, lkVars, awVars, enVars, csVars, chVars, etVars, bkVars>>
    \/ StoreSave /\ UNCHANGED <<brVars, tbVars, cwVars, lkVars, awVars, enVars, csVars, chVars, etVars, bkVars>>

SpecLockInit == BrIdle /\ TbIdle /\ CwIdle /\ StIdle /\ LkInit /\ AwIdle /\ EnIdle /\ CsIdle /\ ChIdle /\ EtIdle /\ BkIdle
SpecLockNext ==
    \E c \in Callers :
        \/ RecordCall(c) /\ UNCHANGED <<brVars, tbVars, cwVars, stVars, awVars, enVars, csVars, chVars, etVars, bkVars>>
        \/ (\E q \in Queries : Query(c, q))
              /\ UNCHANGED <<brVars, tbVars, cwVars, stVars, awVars, enVars, csVars, chVars, etVars, bkVars>>
        \/ LockWake(c) /\ UNCHANGED <<brVars, tbVars, cwVars, stVars, awVars, enVars, csVars, chVars, etVars, bkVars>>
        \/ RecordList(c) /\ UNCHANGED <<brVars, tbVars, cwVars, stVars, awVars, enVars, csVars, chVars, etVars, bkVars>>
        \/ RecordWriteTmp(c) /\ UNCHANGED <<brVars, tbVars, cwVars, stVars, awVars, enVars, csVars, chVars, etVars, bkVars>>
        \/ RecordRename(c) /\ UNCHANGED <<brVars, tbVars, cwVars, stVars, awVars, enVars, csVars, chVars, etVars, bkVars>>
        \/ LockRelease(c) /\ UNCHANGED <<brVars, tbVars, cwVars, stVars, awVars, enVars, csVars, chVars, etVars, bkVars>>

\* The steps of caller c of record, its callback throwing or not.
LockStep(c) ==
    /\ \/ RecordCall(c)
       \/ LockWake(c)
       \/ RecordList(c)
       \/ RecordWriteTmp(c)
       \/ RecordRename(c)
       \/ RecordThrow(c)
       \/ LockRelease(c)
    /\ UNCHANGED <<brVars, tbVars, cwVars, stVars, awVars, enVars, csVars, chVars, etVars, bkVars>>

\* Callers of record whose callbacks may throw; the event loop runs every
\* continuation that is ready.
SpecLockLiveInit == BrIdle /\ TbIdle /\ CwIdle /\ StIdle /\ LkContendedInit /\ AwIdle /\ EnIdle /\ CsIdle /\ ChIdle /\ EtIdle /\ BkIdle
SpecLockLiveNext == \E c \in Callers : LockStep(c)

SpecCrashInit == BrIdle /\ TbIdle /\ CwIdle /\ StIdle /\ LkIdle /\ AwIdle /\ EnIdle /\ CsInit /\ ChIdle /\ EtIdle /\ BkIdle
SpecCrashNext ==
    DetectCrashedSessionCall
    /\ UNCHANGED <<brVars, tbVars, cwVars, stVars, lkVars, awVars, enVars, chVars, etVars, bkVars>>

SpecHandoffInit == BrIdle /\ TbIdle /\ CwIdle /\ StIdle /\ LkIdle /\ AwIdle /\ EnIdle /\ CsIdle /\ ChInit /\ EtIdle /\ BkIdle
SpecHandoffNext ==
    GenerateContinueHereCall
    /\ UNCHANGED <<brVars, tbVars, cwVars, stVars, lkVars, awVars, enVars, csVars, etVars, bkVars>>

SpecEstimateInit ==
    BrIdle /\ TbIdle /\ CwIdle /\ StIdle /\ LkIdle /\ AwIdle /\ EnIdle /\ CsIdle /\ ChIdle /\ EtInit /\ BkIdle
SpecEstimateNext ==
    /\ \/ EstimateTokensCall
       \/ EstimateTokensOther
    /\ UNCHANGED <<brVars, tbVars, cwVars, stVars, lkVars, awVars, enVars, csVars, chVars, bkVars>>

SpecBackoffInit ==
    BrIdle /\ TbIdle /\ CwIdle /\ StIdle /\ LkIdle /\ AwIdle /\ EnIdle /\ CsIdle /\ ChIdle /\ EtIdle /\ BkInit
SpecBackoffNext ==
    /\ \/ BackoffSleep
       \/ BackoffAttempt({0, 1, 2})
    /\ UNCHANGED <<brVars, tbVars, cwVars, stVars, lkVars, awVars, enVars, csVars, chVars, etVars>>

SpecAtomicInit == BrIdle /\ TbIdle /\ CwIdle /\ StIdle /\ LkIdle /\ AwInit /\ EnIdle /\ CsIdle /\ ChIdle /\ EtIdle /\ BkIdle
SpecAtomicNext ==
    \/ AwMkdir /\ UNCHANGED <<brVars, tbVars, cwVars, stVars, lkVars, enVars, csVars, chVars, etVars, bkVars>>
    \/ AwWriteBlock /\ UNCHANGED <<brVars, tbVars, cwVars, stVars, lkVars, enVars, csVars, chVars, etVars, bkVars>>
    \/ AwRename /\ UNCHANGED <<brVars, tbVars, cwVars, stVars, lkVars, enVars, csVars, chVars, etVars, bkVars>>
    \/ AwRenameFails /\ UNCHANGED <<brVars, tbVars, cwVars, stVars, lkVars, enVars, csVars, chVars, etVars, bkVars>>
    \/ AwCopyBlock /\ UNCHANGED <<brVars, tbVars, cwVars, stVars, lkVars, enVars, csVars, chVars, etVars, bkVars>>
    \/ AwUnlink /\ UNCHANGED <<brVars, tbVars, cwVars, stVars, lkVars, enVars, csVars, chVars, etVars, bkVars>>
    \/ AwKill /\ UNCHANGED <<brVars, tbVars, cwVars, stVars, lkVars, enVars, csVars, chVars, etVars, bkVars>>

SpecEngineInit == BrIdle /\ TbIdle /\ CwIdle /\ StIdle /\ LkIdle /\ AwIdle /\ EnInit /\ CsIdle /\ ChIdle /\ EtIdle /\ BkIdle
SpecEngineNext ==
    /\ \/ Start
       \/ MainSerialize
       \/ MainRename
       \/ StartExecute(MaxPrompts)
       \/ CompletePublish
       \/ Resume(MaxResumes)
       \/ ResumeExecute(MaxPrompts)
       \/ LinearAdvance(MaxPrompts)
       \/ WaveAdvance(MaxPrompts)
       \/ \E i \in DOMAIN workflow :
             \/ WorkerSerialize(i)
             \/ WorkerRename(i)
             \/ Compile(i)
             \/ ExecManual(i)
             \/ ExecSpawn(i)
             \/ ExecReturn(i, ExitCodes, OutputsOf(i))
             \/ ExecThrow(i)
             \/ AfterResult(i)
             \/ Publish(i)
    /\ UNCHANGED <<brVars, tbVars, cwVars, stVars, lkVars, awVars, csVars, chVars, etVars, bkVars>>

\* A session that is paused at its gate and resumed again and again, every
\* phase succeeding: the event log grows past the cap of save.
SpecLongInit == BrIdle /\ TbIdle /\ CwIdle /\ StIdle /\ LkIdle /\ AwIdle /\ EnLongInit /\ CsIdle /\ ChIdle /\ EtIdle /\ BkIdle
SpecLongNext ==
    /\ \/ Start
       \/ MainSerialize
       \/ MainRename
       \/ StartExecute(MaxLongPrompts)
       \/ Resume(MaxLongResumes)
       \/ ResumeExecute(MaxLongPrompts)
       \/ WaveAdvance(MaxLongPrompts)
       \/ \E i \in DOMAIN workflow :
             \/ WorkerSerialize(i)
             \/ WorkerRename(i)
             \/ Compile(i)
             \/ ExecSpawn(i)
             \/ ExecReturn(i, {0}, {<<>>})
             \/ AfterResult(i)
             \/ Publish(i)
    /\ UNCHANGED <<brVars, tbVars, cwVars, stVars, lkVars, awVars, csVars, chVars, etVars, bkVars>>

\* start() of a linear workflow without approval gates, run by an executor
\* that always exits with code 0.
SpecLinearInit == BrIdle /\ TbIdle /\ CwIdle /\ StIdle /\ LkIdle /\ AwIdle /\ EnLinearInit /\ CsIdle /\ ChIdle /\ EtIdle /\ BkIdle
SpecLinearNext ==
    /\ \/ Start
       \/ MainSerialize
       \/ MainRename
       \/ StartExecute(MaxPrompts)
       \/ CompletePublish
       \/ LinearAdvance(MaxPrompts)
       \/ \E i \in DOMAIN workflow :
             \/ WorkerSerialize(i)
             \/ WorkerRename(i)
             \/ Compile(i)
             \/ ExecManual(i)
             \/ ExecSpawn(i)
             \/ ExecReturn(i, {0}, OutputsOf(i))
             \/ AfterResult(i)
             \/ Publish(i)
    /\ UNCHANGED <<brVars, tbVars, cwVars, stVars, lkVars, awVars, csVars, chVars, etVars, bkVars>>

\* start() of a linear workflow and resume() of its session, twice at most.
SpecResumeInit == BrIdle /\ TbIdle /\ CwIdle /\ StIdle /\ LkIdle /\ AwIdle /\ EnResumeInit /\ CsIdle /\ ChIdle /\ EtIdle /\ BkIdle
SpecResumeNext ==
    /\ \/ Start
       \/ MainSerialize
       \/ MainRename
       \/ StartExecute(MaxPrompts)
       \/ CompletePublish
       \/ Resume(MaxResumeCalls)
       \/ ResumeExecute(MaxPrompts)
       \/ LinearAdvance(MaxPrompts)
       \/ \E i \in DOMAIN workflow :
             \/ WorkerSerialize(i)
             \/ WorkerRename(i)
             \/ Compile(i)
             \/ ExecManual(i)
             \/ ExecSpawn(i)
             \/ ExecReturn(i, ExitCodes, OutputsOf(i))
             \/ ExecThrow(i)
             \/ AfterResult(i)
             \/ Publish(i)
    /\ UNCHANGED <<brVars, tbVars, cwVars, stVars, lkVars, awVars, csVars, chVars, etVars, bkVars>>

\* start() of a linear workflow, gates and failing executors included; the
\* event loop runs every continuation that is ready.
SpecForwardInit == BrIdle /\ TbIdle /\ CwIdle /\ StIdle /\ LkIdle /\ AwIdle /\ EnForwardInit /\ CsIdle /\ ChIdle /\ EtIdle /\ BkIdle
SpecForwardNext ==
    /\ \/ Start
       \/ MainSerialize
       \/ MainRename
       \/ StartExecute(MaxPrompts)
       \/ CompletePublish
       \/ LinearAdvance(MaxPrompts)
       \/ \E i \in DOMAIN workflow :
             \/ WorkerSerialize(i)
             \/ WorkerRename(i)
             \/ Compile(i)
             \/ ExecManual(i)
             \/ ExecSpawn(i)
             \/ ExecReturn(i, ExitCodes, OutputsOf(i))
             \/ ExecThrow(i)
             \/ AfterResult(i)
             \/ Publish(i)
    /\ UNCHANGED <<brVars, tbVars, cwVars, stVars, lkVars, awVars, csVars, chVars, etVars, bkVars>>

\* start() where the workflow or a component a phase names may not resolve.
SpecConfigInit == BrIdle /\ TbIdle /\ CwIdle /\ StIdle /\ LkIdle /\ AwIdle /\ EnInit /\ CsIdle /\ ChIdle /\ EtIdle /\ BkIdle
SpecConfigNext ==
    /\ \/ Start
       \/ StartThrow
       \/ MainSerialize
       \/ MainRename
       \/ StartExecute(MaxPrompts)
       \/ CompletePublish
       \/ LinearAdvance(MaxPrompts)
       \/ WaveAdvance(MaxPrompts)
       \/ \E i \in DOMAIN workflow :
             \/ WorkerSerialize(i)
             \/ WorkerRename(i)
             \/ Compile(i)
             \/ CompileThrow(i)
             \/ ExecManual(i)
             \/ ExecSpawn(i)
             \/ ExecReturn(i, ExitCodes, OutputsOf(i))
             \/ ExecThrow(i)
             \/ AfterResult(i)
             \/ Publish(i)
    /\ UNCHANGED <<brVars, tbVars, cwVars, stVars, lkVars, awVars, csVars, chVars, etVars, bkVars>>

\* start() and resume() where a write of the session file, of the dashboard
\* or of the decision log may fail.
SpecWritesInit == BrIdle /\ TbIdle /\ CwIdle /\ StIdle /\ LkIdle /\ AwIdle /\ EnInit /\ CsIdle /\ ChIdle /\ EtIdle /\ BkIdle
SpecWritesNext ==
    /\ \/ Start
       \/ MainSerialize
       \/ MainRename
       \/ MainWriteThrow
       \/ StartExecute(MaxPrompts)
       \/ StartRecordThrow
       \/ CompletePublish
       \/ CompletePublishThrow
       \/ Resume(MaxResumes)
       \/ ResumeExecute(MaxPrompts)
       \/ LinearAdvance(MaxPrompts)
       \/ WaveAdvance(MaxPrompts)
       \/ \E i \in DOMAIN workflow :
             \/ WorkerSerialize(i)
             \/ WorkerRename(i)
             \/ WorkerWriteThrow(i)
             \/ Compile(i)
             \/ ExecManual(i)
             \/ ExecSpawn(i)
             \/ ExecReturn(i, ExitCodes, OutputsOf(i))
             \/ AfterResult(i)
             \/ Publish(i)
             \/ \E what \in {"dashboard", "decision"} : PublishThrow(i, what)
    /\ UNCHANGED <<brVars, tbVars, cwVars, stVars, lkVars, awVars, csVars, chVars, etVars, bkVars>>

vars == <<brVars, tbVars, cwVars, stVars, lkVars, awVars, enVars, csVars, chVars,
          etVars, bkVars>>

SpecBracket == SpecBracketInit /\ [][SpecBracketNext]_vars
SpecBudget == SpecBudgetInit /\ [][SpecBudgetNext]_vars
SpecWaves == SpecWavesInit /\ [][SpecWavesNext]_vars
SpecStore == SpecStoreInit /\ [][SpecStoreNext]_vars
SpecLock == SpecLockInit /\ [][SpecLockNext]_vars
SpecAtomic == SpecAtomicInit /\ [][SpecAtomicNext]_vars
SpecEngine == SpecEngineInit /\ [][SpecEngineNext]_vars
SpecLong == SpecLongInit /\ [][SpecLongNext]_vars
SpecConfig == SpecConfigInit /\ [][SpecConfigNext]_vars
SpecCrash == SpecCrashInit /\ [][SpecCrashNext]_vars
SpecHandoff == SpecHandoffInit /\ [][SpecHandoffNext]_vars
SpecEstimate == SpecEstimateInit /\ [][SpecEstimateNext]_vars
SpecBackoff == SpecBackoffInit /\ [][SpecBackoffNext]_vars
SpecResume == SpecResumeInit /\ [][SpecResumeNext]_vars
SpecLockLive ==
    SpecLockLiveInit /\ [][SpecLockLiveNext]_vars /\ \A c \in Callers : WF_vars(LockStep(c))
SpecForward == SpecForwardInit /\ [][SpecForwardNext]_vars /\ WF_vars(SpecForwardNext)
SpecWrites == SpecWritesInit /\ [][SpecWritesNext]_vars
\* Every awaited operation of the run settles: the event loop goes on as
\* long as a continuation is pending.
SpecLinear == SpecLinearInit /\ [][SpecLinearNext]_vars /\ WF_vars(SpecLinearNext)

(***************************************************************************)
(* Properties                                                              *)
(***************************************************************************)

\* ---- C3 ----------------------------------------------------------------
\* C3: after every SessionStore.save with a cap maxEvents >= 1, the saved
\* event log has at most maxEvents events and its first element is the
\* session's original SESSION_START event.
C3_CapAndAnchor ==
    (stSaved.exists /\ stMaxEvents >= 1) =>
        /\ Len(stSaved.content) <= stMaxEvents
        /\ stSaved.content[1] = stOriginal

\* ---- C4 ----------------------------------------------------------------
\* The index of the wave that holds phase i.
WaveOf(waves, i) == CHOOSE k \in 1..Len(waves) : i \in Range(waves[k])

\* Every dependency of every phase is the id of a phase of a strictly
\* earlier wave.
TopologicalOrder(phases, waves) ==
    \A k \in 1..Len(waves) : \A i \in Range(waves[k]) : \A d \in phases[i].dependsOn :
        \E k2 \in 1..(k - 1) : \E j \in Range(waves[k2]) : phases[j].id = d

\* Every dependsOn id names a phase, and the dependency graph has no cycle:
\* the phases can be ranked so that every dependency ranks lower.
Resolvable(phases) ==
    LET n == Len(phases)
    IN  /\ \A i \in 1..n : \A d \in phases[i].dependsOn :
              \E j \in 1..n : phases[j].id = d /\ j # i
        /\ \E rank \in [1..n -> 1..n] :
              \A i \in 1..n : \A d \in phases[i].dependsOn :
                  \E j \in 1..n : phases[j].id = d /\ rank[j] < rank[i]

\* C4 as stated: calculateWaves always returns a valid topological order.
C4_AlwaysTopological ==
    cwResult.returned => TopologicalOrder(cwPhases, cwResult.value.waves)

\* C4 (amended): when every dependsOn id names a phase of the workflow and
\* the dependencies are acyclic, calculateWaves places every phase in exactly
\* one wave, issues no warning, and every dependency of a phase of wave k is
\* a phase of a wave with index < k.
C4_TopologicalWhenResolvable ==
    (cwResult.returned /\ Resolvable(cwPhases)) =>
        /\ ~cwResult.value.warned
        /\ \A i \in 1..Len(cwPhases) :
              Cardinality({k \in 1..Len(cwResult.value.waves) :
                              i \in Range(cwResult.value.waves[k])}) = 1
        /\ TopologicalOrder(cwPhases, cwResult.value.waves)

\* A resolvable workflow of three phases planned into more than one wave.
C4_Witness ==
    /\ cwResult.returned
    /\ Resolvable(cwPhases)
    /\ Len(cwPhases) = 3
    /\ Len(cwResult.value.waves) >= 2
    /\ \E i \in 1..3 : Cardinality(cwPhases[i].dependsOn) = 2

\* ---- C6 ----------------------------------------------------------------
\* The brackets whose [minPercent, maxPercent] range holds the percentage.
MatchingBrackets ==
    {i \in DOMAIN BRACKET_CONFIGS :
        InBracket(estimateContextPercent(brPromptCount, brMaxContext),
                  brMaxContext, BRACKET_CONFIGS[i])}

\* C6 as stated: the percentage lies in the range of exactly one bracket.
C6_ExactlyOneBracket ==
    brResult.returned => Cardinality(MatchingBrackets) = 1

\* C6 (amended): the percentage lies in the range of at least one bracket
\* and getBracket returns one bracket whose range holds it; the range is
\* unique unless the percentage is exactly 25, 40 or 60, where exactly the
\* two adjacent brackets match and getBracket returns the more severe one.
C6_TotalOverlapOnlyAtBoundary ==
    brResult.returned =>
        /\ MatchingBrackets # {}
        /\ \E i \in MatchingBrackets : brResult.value = BRACKET_CONFIGS[i]
        /\ \/ Cardinality(MatchingBrackets) = 1
           \/ \E i \in 1..(Len(BRACKET_CONFIGS) - 1) :
                 /\ MatchingBrackets = {i, i + 1}
                 /\ estimateContextPercent(brPromptCount, brMaxContext)
                        = BRACKET_CONFIGS[i].minPercent * brMaxContext
                 /\ BRACKET_CONFIGS[i].minPercent \in {25, 40, 60}
                 /\ brResult.value = BRACKET_CONFIGS[i + 1]

\* getBracket has returned for a percentage that two brackets hold.
C6_Witness ==
    /\ brResult.returned
    /\ Cardinality(MatchingBrackets) = 2
    /\ brResult.value.bracket = "CRITICAL"

\* ---- C7 ----------------------------------------------------------------
ProtectedSections == {i \in 1..Len(tbSections) : tbSections[i].priority = 0}

\* C7: enforceTokenBudget keeps every priority-0 section, and the tokens of
\* the sections it returns sum to at most the budget unless the priority-0
\* sections alone sum to more than the budget.
C7_ProtectedKeptAndWithinBudget ==
    tbResult.returned =>
        /\ ProtectedSections \subseteq Range(tbResult.value)
        /\ \/ SumTokens(tbSections, tbResult.value) <= tbBudget
           \/ SumTokens(tbSections,
                        SelectSeq(AllIndices(tbSections),
                                  LAMBDA i : i \in ProtectedSections)) > tbBudget

\* Over budget, with a protected section kept and another section removed.
C7_Witness ==
    /\ tbResult.returned
    /\ SumTokens(tbSections, AllIndices(tbSections)) > tbBudget
    /\ \E i \in ProtectedSections : tbSections[i].tokens > 0
    /\ Len(tbResult.value) < Len(tbSections)
    /\ SumTokens(tbSections, tbResult.value) <= tbBudget

\* ---- C5 ----------------------------------------------------------------
\* The id DEC-00n as DecisionLog.record formats it.
DecId(n) == [prefix |-> "DEC-", digits |-> PadStart(Digits(n), 3, 0)]

\* C5: whatever the interleaving of the record calls, a log that started
\* empty holds after n completed calls exactly n decisions, one per call,
\* with the ids DEC-001 .. DEC-n in append order (unique, increasing), and
\* each call returned the id its entry has in the log.
C5_IdsSequentialAndUnique ==
    \A key \in LockKeys :
        LET log == ListDecisions(key)
        IN  /\ Len(log) = Cardinality(Recorded(key))
            /\ \A i \in 1..Len(log) : log[i].id = DecId(i)
            /\ {log[i].entry : i \in 1..Len(log)} = Recorded(key)
            /\ \A c \in Recorded(key) : \E i \in 1..Len(log) : log[i] = lkReturned[c].value

\* Three calls on the same log, through two spellings of its path, are done.
C5_Witness ==
    /\ \A c \in Callers : lkPc[c] = "done"
    /\ \E key \in LockKeys : Cardinality(Recorded(key)) >= 3
    /\ \E c1, c2 \in Callers : lkFilePath[c1] # lkFilePath[c2]

\* ---- C9 ----------------------------------------------------------------
\* C9: at most one callback passed to withLock for the same resolved path
\* is executing at any time.
C9_MutualExclusion ==
    \A key \in LockKeys : Cardinality(InCallback(key)) <= 1

\* One caller is inside its callback while two others wait for the same
\* resolved path, which they spell differently.
C9_Witness ==
    \E c \in Callers :
        /\ lkPc[c] = "write"
        /\ \A d \in Callers \ {c} :
              /\ lkPc[d] = "await"
              /\ Resolve(lkFilePath[d]) = Resolve(lkFilePath[c])
        /\ \E d \in Callers : lkFilePath[d] # lkFilePath[c]

\* ---- C10 ---------------------------------------------------------------
\* C10: if the process is killed at any step of atomicWrite, the target
\* file holds its complete previous content or the complete new content.
C10_KillLeavesOldOrNew ==
    awPc = "killed" => (awTarget = awPrevious \/ awTarget = File(awContent))

\* ---- C1 ----------------------------------------------------------------
\* C1: on resume, in linear and in wave mode, the phases the run treats as
\* completed are exactly the phases that have a PHASE_COMPLETE event in the
\* event log resume loaded; the events of other types decide nothing.
C1_CompletedIsLoadedPhaseComplete ==
    run = "resume" =>
        /\ completedPhases = CompletedIn(loadedEvents)
        /\ completedPhases =
               CompletedIn(SelectSeq(loadedEvents, LAMBDA e : e.type = "PHASE_COMPLETE"))

\* ---- C2 ----------------------------------------------------------------
\* C2: in every phase execution the executor is invoked at most
\* phase.retry + 1 times, and an invocation that is not the first follows a
\* result whose exit code is not 0, so none follows a result with exit code 0.
C2_AtMostRetryPlusOne ==
    \A i \in DOMAIN workflow :
        /\ wInvocations[i] <= PhaseAt(i).retry + 1
        /\ (wPc[i] = "running" /\ wInvocations[i] > 1) => wResult[i].value.exitCode # 0

\* A phase with the largest retry limit has failed after retry + 1 invocations.
C2_Witness ==
    \E i \in DOMAIN workflow :
        /\ PhaseAt(i).retry = MaxRetry
        /\ wInvocations[i] = MaxRetry + 1
        /\ wPc[i] = "failSer"

\* ---- C8 ----------------------------------------------------------------
\* C8: once every phase of a parallel wave has resolved, the session record
\* on disk has the status last set in memory and every event of the session
\* in memory, the events the phases of the wave appended among them.
C8_NoLostUpdate ==
    (/\ HasDependsOn(workflow)
     /\ mainPc = "waiting"
     /\ Cardinality(Dispatched) > 1
     /\ Dispatched = Resolved)
    => /\ sessionFile.exists
       /\ sessionFile.content.status = session.status
       /\ \A k \in DOMAIN session.events :
              \E j \in DOMAIN sessionFile.content.events :
                  sessionFile.content.events[j] = session.events[k]

\* ---- C11 ---------------------------------------------------------------
\* key occurs, case-insensitively, as a substring of the executor's output
KeyOccurs(output, key) == Includes(ToLowerCase(output), ToLowerCase(key))

\* The index of the phase with this id, 0 when the id names no phase.
Named(id) == IF id = NoId THEN 0 ELSE FindIndexById(workflow, id)

\* The successor of phase i by (b) its next pointer, else (c) the next index.
ByNextOrIndex(i) == IF Named(workflow[i].next) > 0 THEN Named(workflow[i].next) ELSE i + 1

\* The successor as C11 states it: the first key that occurs decides.
StatedSuccessor(i, output) ==
    LET decision == workflow[i].decision
        k == FirstIndex({j \in DOMAIN decision : KeyOccurs(output, decision[j][1])})
    IN  IF k > 0 /\ Named(decision[k][2]) > 0 THEN Named(decision[k][2]) ELSE ByNextOrIndex(i)

\* The successor with the conditions the code adds: the output is not empty
\* and the first key that occurs and maps to a phase of the workflow decides.
AmendedSuccessor(i, output) ==
    LET decision == workflow[i].decision
        k == FirstIndex({j \in DOMAIN decision : /\ output # <<>>
                                                  /\ KeyOccurs(output, decision[j][1])
                                                  /\ Named(decision[j][2]) > 0})
    IN  IF k > 0 THEN Named(decision[k][2]) ELSE ByNextOrIndex(i)

\* The step after the completion of a phase dispatches `target`, or
\* completes the session when `target` is no phase.
ContinuesWith(target) ==
    IF target \in DOMAIN workflow
    THEN /\ wPc'[target] = "prepSer"
         /\ session'.currentPhase = workflow[target].id
         /\ session'.status = session.status
    ELSE /\ session'.status = "completed"
         /\ \A j \in DOMAIN workflow : wPc'[j] = "none"

\* C11 as stated: in linear mode the step after a completed phase continues
\* with the phase mapped by the first decision key that occurs in the
\* output, else with the phase named by next, else with the next index, and
\* completes the session when there is no such phase.
C11_SuccessorAsStated ==
    [][\A i \in DOMAIN workflow :
          (mainPc = "waiting" /\ ~HasDependsOn(workflow) /\ wPc[i] = "completed")
          => ContinuesWith(StatedSuccessor(i, wResult[i].value.output))]_vars

\* C11 amended: the same order, where decision routing applies to a
\* non-empty output only and the key that decides is the first one that
\* occurs in the output and maps to a phase of the workflow.
C11_SuccessorInOrder ==
    [][\A i \in DOMAIN workflow :
          (mainPc = "waiting" /\ ~HasDependsOn(workflow) /\ wPc[i] = "completed")
          => ContinuesWith(AmendedSuccessor(i, wResult[i].value.output))]_vars

\* Phase a, whose next pointer names c and whose decision map leads to b by
\* a key behind one that maps to no phase, has completed at the first
\* attempt, and b has been dispatched: the decision map chose the successor.
C11_Witness ==
    /\ workflow # <<>>
    /\ workflow[1].decision # NoDecision
    /\ run = "start"
    /\ session.currentPhase = "b"
    /\ wPc[2] = "prepSer"
    /\ Len(session.events) = 4
    /\ session.tokens = 1

\* ---- C12 ---------------------------------------------------------------
\* The positions of the events of this type and phase in the session's log.
EventsOf(type, id) ==
    {k \in DOMAIN session.events :
        session.events[k].type = type /\ session.events[k].phase = id}

\* The position of the PHASE_START of the current dispatch of phase i.
DispatchStart(i) ==
    LET starts == EventsOf("PHASE_START", PhaseAt(i).id)
    IN  IF starts = {} THEN 0 ELSE CHOOSE k \in starts : \A j \in starts : j <= k

\* The events of this type that phase i appended in its current dispatch.
SinceDispatch(i, type) == {k \in EventsOf(type, PhaseAt(i).id) : k > DispatchStart(i)}

\* The phases with a user_approval gate that are dispatched.
GatedDispatched == {i \in Dispatched : PhaseAt(i).gate = "user_approval"}

\* No PHASE_START follows an event of this type in the log unless a
\* SESSION_RESUME lies between them: the run that appended the event
\* started no phase after it.
NoStartAfter(type) ==
    \A k, l \in DOMAIN session.events :
        (/\ k < l
         /\ session.events[k].type = type
         /\ session.events[l].type = "PHASE_START")
        => \E r \in k..l : session.events[r].type = "SESSION_RESUME"

\* C12: for a dispatched phase with a user_approval gate, in linear and in
\* wave mode, the executor is never invoked; once the phase has passed its
\* gate test the session is paused (or failed, when a sibling of its wave
\* failed since) and the log holds exactly one GATE_PAUSE event of this
\* dispatch, none before the test; a phase that resolved has written the
\* handoff document and is reported as stopped; and the run starts no phase
\* after a GATE_PAUSE.
C12_GatePausesWithoutExecutor ==
    /\ \A i \in GatedDispatched :
          /\ wInvocations[i] = 0
          /\ wPc[i] \notin {"exec", "running", "result", "compSer", "compRen", "compPub",
                            "failSer", "failRen", "failPub", "completed"}
          /\ wPc[i] \in {"prepSer", "prepRen", "compile"}
                => SinceDispatch(i, "GATE_PAUSE") = {}
          /\ wPc[i] \in {"gateSer", "gateRen", "gatePub", "stopped"}
                => Cardinality(SinceDispatch(i, "GATE_PAUSE")) = 1
          /\ wPc[i] \in {"gateSer", "gateRen", "gatePub", "stopped"}
                => \/ session.status = "paused"
                   \/ /\ session.status = "failed"
                      /\ \E j \in Dispatched \ {i} : SinceDispatch(j, "PHASE_FAILED") # {}
          /\ wPc[i] = "stopped"
                => /\ handoffFile.exists
                   /\ HasDependsOn(workflow) \/ handoffFile = Handoff(session, "paused")
    /\ NoStartAfter("GATE_PAUSE")

\* In wave mode a gated phase has paused and resolved while its sibling in
\* the wave completed.
C12_Witness ==
    /\ HasDependsOn(workflow)
    /\ \E i \in GatedDispatched : wPc[i] = "stopped"
    /\ \E j \in Dispatched : wPc[j] = "completed"
    /\ handoffFile.exists
    /\ handoffFile.content.reason = "paused"

\* ---- C13 ---------------------------------------------------------------
\* The phases whose current dispatch ended in handlePhaseFailed.
FailedDispatched == {i \in Dispatched : wPc[i] \in {"failSer", "failRen", "failPub"}
                                        \/ (wPc[i] = "stopped" /\ ~IsApprovalGate(PhaseAt(i)))}

\* The failure of a phase is recorded in memory: it follows a last allowed
\* attempt (attempt retry + 1 under a real executor) with a non-zero exit
\* code, the log holds exactly one PHASE_FAILED event of this dispatch and it
\* carries that exit code, the status is failed (or paused, when a sibling of
\* the wave paused since), a resolved phase has written the handoff document,
\* and the run starts no phase after a PHASE_FAILED.
FailureRecorded ==
    /\ \A i \in FailedDispatched :
          /\ wResult[i].value.exitCode # 0
          /\ wAttempt[i] = PhaseAt(i).retry + 1
          /\ wInvocations[i] = PhaseAt(i).retry + 1
          /\ Cardinality(SinceDispatch(i, "PHASE_FAILED")) = 1
          /\ \A k \in SinceDispatch(i, "PHASE_FAILED") :
                session.events[k].exitCode = wResult[i].value.exitCode
          /\ \/ session.status = "failed"
             \/ /\ session.status = "paused"
                /\ \E j \in Dispatched \ {i} : SinceDispatch(j, "GATE_PAUSE") # {}
          /\ wPc[i] = "stopped" => handoffFile.exists
    /\ \A i \in Dispatched \ FailedDispatched : SinceDispatch(i, "PHASE_FAILED") = {}
    /\ NoStartAfter("PHASE_FAILED")

\* The failure of a phase is persisted: once the phase has resolved and the
\* run has returned, the session record on disk has the status failed (or
\* paused) and the PHASE_FAILED event.
FailurePersisted ==
    \A i \in FailedDispatched :
        (wPc[i] = "stopped" /\ mainPc = "returned")
        => /\ sessionFile.content.status \in {"failed", "paused"}
           /\ \A k \in SinceDispatch(i, "PHASE_FAILED") :
                 \E j \in DOMAIN sessionFile.content.events :
                     sessionFile.content.events[j] = session.events[k]

\* C13: when the last allowed attempt of a phase returns a non-zero exit
\* code the session becomes failed, one PHASE_FAILED event with the exit code
\* is appended, the handoff document is written, the session is persisted,
\* and the run dispatches no further phase.
C13_FailureStopsAndPersists == FailureRecorded /\ FailurePersisted

\* ---- C14 ---------------------------------------------------------------
\* The events phase i appended after the PHASE_START of its current dispatch.
OwnEventsSinceDispatch(i) ==
    {k \in DOMAIN session.events :
        k > DispatchStart(i) /\ session.events[k].phase = PhaseAt(i).id}

\* C14: a phase whose executor failed k times (1 <= k <= retry) and then
\* succeeded has exactly one PHASE_COMPLETE event and no PHASE_FAILED event
\* in its dispatch; while its attempts fail and are retried it appends no
\* event at all; and a run that returns without a phase that stopped at a
\* gate or a failure leaves the session completed.
C14_RetriedSuccessCompletesOnce ==
    /\ \A i \in Dispatched :
          /\ (wPc[i] \in {"exec", "running", "result"}) => OwnEventsSinceDispatch(i) = {}
          /\ (/\ wPc[i] \in {"compSer", "compRen", "compPub", "completed"}
              /\ wInvocations[i] >= 2)
             => /\ wInvocations[i] <= PhaseAt(i).retry + 1
                /\ wResult[i].value.exitCode = 0
                /\ Cardinality(SinceDispatch(i, "PHASE_COMPLETE")) = 1
                /\ SinceDispatch(i, "PHASE_FAILED") = {}
                /\ OwnEventsSinceDispatch(i) = SinceDispatch(i, "PHASE_COMPLETE")
    /\ (/\ mainPc = "returned"
        /\ run \in {"start", "resume"}
        /\ \A i \in DOMAIN workflow : wPc[i] # "stopped")
       => session.status = "completed"

\* A phase with the largest retry limit failed on every attempt but the last
\* and completed.
C14_Witness ==
    \E i \in Dispatched :
        /\ PhaseAt(i).retry = MaxRetry
        /\ wInvocations[i] = MaxRetry + 1
        /\ wPc[i] = "completed"
        /\ Cardinality(SinceDispatch(i, "PHASE_COMPLETE")) = 1

\* ---- C15 ---------------------------------------------------------------
\* Every PHASE_START of the log is directly followed by the PHASE_COMPLETE
\* of the same phase (once that is appended) and every PHASE_COMPLETE
\* directly follows the PHASE_START of its phase: the completion of a phase
\* precedes the start of the phase dispatched after it.
StartThenComplete ==
    \A k \in DOMAIN session.events :
       LET e == session.events[k]
       IN  /\ (e.type = "PHASE_START" /\ k < Len(session.events))
                => /\ session.events[k + 1].type = "PHASE_COMPLETE"
                   /\ session.events[k + 1].phase = e.phase
           /\ e.type = "PHASE_COMPLETE"
                => /\ k > 1
                   /\ session.events[k - 1].type = "PHASE_START"
                   /\ session.events[k - 1].phase = e.phase
           /\ e.type \in {"SESSION_START", "PHASE_START", "PHASE_COMPLETE", "SESSION_COMPLETE"}

\* A dispatched phase has one PHASE_START and no phase has more than one
\* PHASE_START or PHASE_COMPLETE.
OneStartOneComplete ==
    /\ \A i \in Dispatched : Cardinality(EventsOf("PHASE_START", PhaseAt(i).id)) = 1
    /\ \A i \in DOMAIN workflow :
          /\ Cardinality(EventsOf("PHASE_START", PhaseAt(i).id)) <= 1
          /\ Cardinality(EventsOf("PHASE_COMPLETE", PhaseAt(i).id)) <= 1

\* start() has returned: the session is completed, in memory and on disk,
\* and every PHASE_START has its PHASE_COMPLETE.
EndedCompleted ==
    mainPc = "returned"
    => /\ session.status = "completed"
       /\ sessionFile = File(session)
       /\ session.events[Len(session.events)].type = "SESSION_COMPLETE"

\* Every next pointer and every decision target that names a phase names a
\* later phase of the array, and the two events of every phase fit under
\* the cap of the log.
ForwardOnly ==
    /\ \A i \in DOMAIN workflow :
          /\ Named(workflow[i].next) \in {0} \cup (i + 1 .. Len(workflow))
          /\ \A j \in DOMAIN workflow[i].decision :
                Named(workflow[i].decision[j][2]) \in {0} \cup (i + 1 .. Len(workflow))
    /\ 2 * Len(workflow) + 2 <= DefaultMaxEvents

StoppedInWave ==
    {i \in Dispatched :
        SinceDispatch(i, "GATE_PAUSE") \cup SinceDispatch(i, "PHASE_FAILED") # {}}

\* The phases that calculateWaves places in a wave after the current one.
InLaterWave == {i \in DOMAIN workflow : WaveOf(enWaves, i) > waveIndex}

\* C16: in wave mode, once a phase of the current wave has paused at its
\* gate or failed, no step of that run (any step but the resume that begins
\* the next run) appends a PHASE_START or dispatches a phase of a later
\* wave, and every event of the log, the PHASE_COMPLETE events of the
\* siblings among them, stays where it is; a sibling that completes
\* afterwards still appends its PHASE_COMPLETE.
C16_WaveStopHaltsKeepsSiblings ==
    [][(HasDependsOn(workflow) /\ StoppedInWave # {} /\ resumes' = resumes)
       => /\ Len(session'.events) >= Len(session.events)
          /\ \A k \in DOMAIN session.events : session'.events[k] = session.events[k]
          /\ \A k \in DOMAIN session'.events \ DOMAIN session.events :
                session'.events[k].type \notin {"PHASE_START", "SESSION_COMPLETE"}
          /\ \A i \in InLaterWave : wPc'[i] = "none"
          /\ \A i \in Dispatched :
                (wPc[i] = "result" /\ wPc'[i] = "compSer")
                => session'.events[Len(session'.events)]
                     = Event("PHASE_COMPLETE", PhaseAt(i).id, 0)]_vars

\* A run of a wave workflow with a later wave has returned: one phase of its
\* first wave stopped at its gate, its sibling appended PHASE_COMPLETE after
\* the GATE_PAUSE, and the phase of the later wave has no PHASE_START.
C16_Witness ==
    /\ HasDependsOn(workflow)
    /\ mainPc = "returned"
    /\ run = "start"
    /\ InLaterWave # {}
    /\ \A i \in InLaterWave : EventsOf("PHASE_START", PhaseAt(i).id) = {}
    /\ \E i \in StoppedInWave, j \in Dispatched :
          /\ wPc[j] = "completed"
          /\ \E k \in SinceDispatch(i, "GATE_PAUSE"), l \in SinceDispatch(j, "PHASE_COMPLETE") :
                k < l

\* ---- C17 ---------------------------------------------------------------
\* The wave that calculateWaves gave the phase with this id.
WaveOfId(id) == WaveOf(enWaves, Named(id))

\* C17: in wave mode, whenever the log holds the PHASE_START of a phase and,
\* behind it, the PHASE_START of a phase of a later wave, a PHASE_COMPLETE,
\* GATE_PAUSE or PHASE_FAILED event of the first phase lies between them.
C17_WaveResolvesBeforeNext ==
    HasDependsOn(workflow)
    => \A k, l \in DOMAIN session.events :
          (/\ k < l
           /\ session.events[k].type = "PHASE_START"
           /\ session.events[l].type = "PHASE_START"
           /\ WaveOfId(session.events[k].phase) < WaveOfId(session.events[l].phase))
          => \E r \in (k + 1) .. (l - 1) :
                /\ session.events[r].phase = session.events[k].phase
                /\ session.events[r].type \in {"PHASE_COMPLETE", "GATE_PAUSE", "PHASE_FAILED"}

\* The second wave has been started after the two phases of the first wave
\* completed in the reverse of their dispatch order.
C17_Witness ==
    /\ HasDependsOn(workflow)
    /\ enWaves # <<>>
    /\ \E i, j, c \in DOMAIN workflow :
          /\ i < j
          /\ WaveOfId(PhaseAt(i).id) = WaveOfId(PhaseAt(j).id)
          /\ WaveOfId(PhaseAt(c).id) > WaveOfId(PhaseAt(i).id)
          /\ EventsOf("PHASE_START", PhaseAt(c).id) # {}
          /\ \E k \in EventsOf("PHASE_COMPLETE", PhaseAt(j).id),
                l \in EventsOf("PHASE_COMPLETE", PhaseAt(i).id) : k < l

\* ---- C18 ---------------------------------------------------------------
\* The phases whose executor subprocess has been spawned and has not exited.
RunningSubprocesses == {i \in DOMAIN workflow : wPc[i] = "running"}

\* C18: whenever the status of the session is paused, no executor
\* subprocess of the session is running, in linear and in wave mode.
C18_PausedHasNoSubprocess == session.status = "paused" => RunningSubprocesses = {}

\* ---- C19 ---------------------------------------------------------------
\* C19: a resume of a session whose record has the status completed
\* returns with the session as it was loaded (no event appended, no field
\* changed), leaves the session record and every other file as it was, and
\* dispatches no phase and invokes no executor.
C19_ResumeCompletedIsNoOp ==
    [][(/\ resumes' = resumes + 1
        /\ sessionFile.exists
        /\ sessionFile.content.status = "completed")
       => /\ session' = sessionFile.content
          /\ sessionFile' = sessionFile
          /\ handoffFile' = handoffFile
          /\ dashboard' = dashboard
          /\ decisionLog' = decisionLog
          /\ mainPc' = "returned"
          /\ \A i \in DOMAIN workflow : wPc'[i] = "none" /\ wInvocations'[i] = 0]_vars

\* A completed session whose workflow left a phase without PHASE_COMPLETE
\* (a next pointer passed over it) has been resumed.
C19_Witness ==
    /\ run = "resume-noop"
    /\ resumes = 1
    /\ session.status = "completed"
    /\ \E i \in DOMAIN workflow : PhaseAt(i).id \notin CompletedIn(session.events)
    /\ CompletedIn(session.events) # {}

\* ---- C20 ---------------------------------------------------------------
\* The phases with a PHASE_COMPLETE event in the log the resume loaded.
CompletedWhenLoaded == {i \in DOMAIN workflow : PhaseAt(i).id \in CompletedIn(loadedEvents)}

\* The position of the last SESSION_RESUME event of the log, 0 without one.
LastResume ==
    LET rs == {k \in DOMAIN session.events : session.events[k].type = "SESSION_RESUME"}
    IN  IF rs = {} THEN 0 ELSE CHOOSE k \in rs : \A j \in rs : j <= k

\* C20: in a resumed run in wave mode a phase with a PHASE_COMPLETE event in
\* the loaded log is not dispatched (no executor invocation, no PHASE_START
\* behind the SESSION_RESUME of the run), and the wave the run is working on
\* holds a phase without such an event.
C20_CompletedNotRedispatched ==
    (HasDependsOn(workflow) /\ run = "resume")
    => /\ \A i \in CompletedWhenLoaded :
             /\ wPc[i] = "none"
             /\ wInvocations[i] = 0
             /\ \A k \in EventsOf("PHASE_START", PhaseAt(i).id) : k < LastResume
       /\ Dispatched # {} => ~(Range(enWaves[waveIndex]) \subseteq CompletedWhenLoaded)

\* ---- C21 ---------------------------------------------------------------
\* C21: promptCount never decreases, and whenever start or resume has
\* returned it equals the number of executor invocations made for the
\* session.
C21_PromptCountIsInvocations ==
    /\ [](mainPc = "returned" => session.promptCount = invocations)
    /\ [][session'.promptCount >= session.promptCount]_vars

\* ---- C22 ---------------------------------------------------------------
\* C22: when start() has reported a configuration or definition error
\* (workflow not found or malformed, agent or task of a phase unresolved) to
\* its caller, no session was built or saved, no event was appended and
\* promptCount is what it was.
C22_ConfigErrorBeforeMutation ==
    error \in {"workflow", "component"}
    => /\ session = NoSession
       /\ sessionFile = NoFile

\* ---- C23 ---------------------------------------------------------------
\* C23: a failed dashboard write or decision-log write never makes start()
\* or resume() reject: the only write failure that reaches the caller is that
\* of the session file.
C23_OnlySessionWriteReachesCaller ==
    mainPc = "rejected" => error = "session"

\* ---- C24 ---------------------------------------------------------------
\* The prompt assembly of phase i takes place in this step.
Assembles(i) == wPc[i] = "compile" /\ wPc'[i] \in {"exec", "gateSer"}

\* C24: a handoff file that was written is read by exactly one prompt
\* assembly, the next one: the first assembly after the write reads it, and
\* no assembly reads it a second time.
C24_HandoffReadOnceByNext ==
    /\ [](handoffReads <= 1)
    /\ [][\A i \in DOMAIN workflow :
            (Assembles(i) /\ handoffFile.exists /\ handoffReads = 0)
            => handoffReads' = 1]_vars

\* ---- C25 ---------------------------------------------------------------
\* p = clamp(100 - promptCount * 3500 * 100 / maxContext, 0, 100), as the
\* numerator of the fraction over maxContext.
ClampedPercent ==
    LET raw == 100 * brMaxContext - brPromptCount * 3500 * 100
    IN  IF raw < 0 THEN 0 ELSE IF raw > 100 * brMaxContext THEN 100 * brMaxContext ELSE raw

\* The first of CRITICAL [0,25], DEPLETED [25,40], MODERATE [40,60],
\* FRESH [60,100] whose range holds p.
FirstMatch ==
    IF ClampedPercent <= 25 * brMaxContext THEN "CRITICAL"
    ELSE IF ClampedPercent <= 40 * brMaxContext THEN "DEPLETED"
    ELSE IF ClampedPercent <= 60 * brMaxContext THEN "MODERATE"
    ELSE "FRESH"

\* C25: getBracket returns the first bracket, in the order CRITICAL,
\* DEPLETED, MODERATE, FRESH, whose range holds the clamped percentage;
\* getBracket(1, 200000) is FRESH and getBracket(50, 200000) is CRITICAL
\* with handoffWarning true.
C25_GetBracketFirstMatch ==
    brResult.returned =>
        /\ brResult.value.bracket = FirstMatch
        /\ brResult.value \in Range(BRACKET_CONFIGS)
        /\ (brPromptCount = 1 /\ brMaxContext = 200000) => brResult.value.bracket = "FRESH"
        /\ (brPromptCount = 50 /\ brMaxContext = 200000)
           => brResult.value.bracket = "CRITICAL" /\ brResult.value.handoffWarning

\* getBracket(50, 200000) has returned the bracket with the handoff warning.
C25_Witness ==
    /\ brResult.returned
    /\ brPromptCount = 50
    /\ brMaxContext = 200000
    /\ brResult.value.handoffWarning

\* ---- C26 ---------------------------------------------------------------
\* The phases of the waves before wave n.
ScheduledBefore(waves, n) == UNION {Range(waves[k]) : k \in 1..(n - 1)}

\* All not-yet-scheduled phases, in array order, whose dependsOn ids all
\* belong to phases of the waves before wave n.
EarliestWave(phases, waves, n) ==
    SelectSeq([i \in 1..Len(phases) |-> i],
              LAMBDA i : /\ i \notin ScheduledBefore(waves, n)
                         /\ phases[i].dependsOn
                                \subseteq {phases[j].id : j \in ScheduledBefore(waves, n)})

\* Phases A and B without dependencies and C depending on A and B.
DiamondWorkflow ==
    << [id |-> "a", dependsOn |-> {}], [id |-> "b", dependsOn |-> {}],
       [id |-> "c", dependsOn |-> {"a", "b"}] >>

\* C26 as stated: every wave of every plan is the earliest possible one.
C26_EarliestWaveAlways ==
    cwResult.returned =>
        \A n \in 1..Len(cwResult.value.waves) :
            cwResult.value.waves[n] = EarliestWave(cwPhases, cwResult.value.waves, n)

\* C26 (amended): when every dependsOn id names a phase and the dependencies
\* are acyclic, wave n is exactly the not-yet-scheduled phases, in array
\* order, whose dependsOn ids all belong to waves before n; A and B without
\* dependencies and C depending on both give [[A,B],[C]].
C26_EarliestWaveWhenResolvable ==
    cwResult.returned =>
        /\ Resolvable(cwPhases) =>
              \A n \in 1..Len(cwResult.value.waves) :
                  cwResult.value.waves[n] = EarliestWave(cwPhases, cwResult.value.waves, n)
        /\ cwPhases = DiamondWorkflow => cwResult.value.waves = <<<<1, 2>>, <<3>>>>

\* The plan of the workflow A, B, C with C depending on A and B.
C26_Witness ==
    /\ cwResult.returned
    /\ cwPhases = DiamondWorkflow
    /\ Len(cwResult.value.waves) = 2

\* ---- C27 ---------------------------------------------------------------
\* Waves m+1 .. Len(waves) are the phases not scheduled in waves 1..m, each
\* as a wave of its own, in array order.
SingletonTail(phases, waves, m) ==
    LET rest == SelectSeq([i \in 1..Len(phases) |-> i],
                          LAMBDA i : i \notin ScheduledBefore(waves, m + 1))
    IN  /\ Len(waves) = m + Len(rest)
        /\ \A k \in 1..Len(rest) : waves[m + k] = <<rest[k]>>

\* C27: calculateWaves returns for every workflow, with every phase in
\* exactly one wave; when some iteration finds no remaining phase with all
\* its dependencies scheduled (an unknown or circular dependency), the waves
\* planned up to there are followed by every remaining phase as a wave of
\* its own, in array order, and the warning is issued.
C27_FallbackSingletonWaves ==
    cwResult.returned =>
        /\ \A i \in 1..Len(cwPhases) :
              Cardinality({k \in 1..Len(cwResult.value.waves) :
                              i \in Range(cwResult.value.waves[k])}) = 1
        /\ \A k \in 1..Len(cwResult.value.waves) :
              Range(cwResult.value.waves[k]) \subseteq 1..Len(cwPhases)
        /\ cwResult.value.warned = ~Resolvable(cwPhases)
        /\ cwResult.value.warned =>
              \E m \in 0..(Len(cwResult.value.waves) - 1) :
                  /\ \A n \in 1..m :
                        /\ cwResult.value.waves[n] # <<>>
                        /\ cwResult.value.waves[n]
                               = EarliestWave(cwPhases, cwResult.value.waves, n)
                  /\ EarliestWave(cwPhases, cwResult.value.waves, m + 1) = <<>>
                  /\ SingletonTail(cwPhases, cwResult.value.waves, m)

\* A plan where a first wave is followed by two phases that depend on each
\* other, each as a wave of its own.
C27_Witness ==
    /\ cwResult.returned
    /\ cwResult.value.warned
    /\ cwPhases[1].dependsOn = {}
    /\ cwResult.value.waves = <<<<1>>, <<2>>, <<3>>>>

\* ---- C28 ---------------------------------------------------------------
\* The threshold of the call, in minutes.
CsThreshold ==
    IF csCrashMinutes.present THEN csCrashMinutes.value ELSE DEFAULT_CRASH_MINUTES

\* Ticks from lastActivity (startedAt when lastActivity is absent) to the call.
CsInactivity ==
    CsNow - (IF csSession.lastActivity.present THEN csSession.lastActivity.value
             ELSE csSession.startedAt)

\* C28 as stated: a session is flagged iff it is running and its last
\* activity is older than the threshold.
C28_FlaggedIffOlderThanThreshold ==
    csResult.returned =>
        (csResult.value.crashed
         <=> (csSession.status = "running" /\ CsInactivity > CsThreshold * TicksPerMinute))

\* C28 (amended): a session is flagged iff it is running and its last
\* activity (startedAt when lastActivity is absent) is at least the
\* threshold in minutes (default 30) old; sessions that are paused,
\* completed, failed or idle are never flagged; with threshold 30, 60
\* minutes of inactivity are flagged and 10 minutes are not.
C28_FlaggedIffAtLeastThreshold ==
    csResult.returned =>
        /\ csResult.value.crashed
           <=> (csSession.status = "running" /\ CsInactivity >= CsThreshold * TicksPerMinute)
        /\ csSession.status \in {"paused", "completed", "failed", "idle"}
           => ~csResult.value.crashed
        /\ (csSession.status = "running" /\ CsThreshold = 30)
           => /\ CsInactivity = 60 * TicksPerMinute => csResult.value.crashed
              /\ CsInactivity = 10 * TicksPerMinute => ~csResult.value.crashed

\* A running session without lastActivity, started 60 minutes before the
\* call, is flagged under the default threshold.
C28_Witness ==
    /\ csResult.returned
    /\ csSession.status = "running"
    /\ ~csSession.lastActivity.present
    /\ ~csCrashMinutes.present
    /\ CsInactivity = 60 * TicksPerMinute
    /\ csResult.value.crashed
    /\ csResult.value.minutesSinceActivity = 60

\* ---- C29 ---------------------------------------------------------------
\* The log at key k is what it was, followed by exactly one new entry.
OneAppended(k) ==
    /\ logFiles'[k].exists
    /\ Len(logFiles'[k].content) = Len(ListDecisions(k)) + 1
    /\ \A i \in 1..Len(ListDecisions(k)) : logFiles'[k].content[i] = ListDecisions(k)[i]

LinesOf(doc, i) ==
    Cardinality({k \in DOMAIN doc.completedLines : doc.completedLines[k] = i})
        + Cardinality({k \in DOMAIN doc.remainingLines : doc.remainingLines[k] = i})

\* C30: the document lists every phase of the workflow exactly once, checked
\* iff the event log has a PHASE_COMPLETE event for it and unchecked
\* otherwise, and its next action is "all phases completed" iff no phase
\* remains, a resume instruction otherwise.
C30_HandoffListsPhasesAndNextAction ==
    chResult.returned =>
        /\ \A i \in 1..Len(chPhases) :
              /\ LinesOf(chResult.value, i) = 1
              /\ i \in Range(chResult.value.completedLines)
                 <=> \E e \in Range(chSession.events) :
                        e.type = "PHASE_COMPLETE" /\ e.phase = chPhases[i].id
        /\ chResult.value.nextAction.kind = "allCompleted"
           <=> chResult.value.remainingLines = <<>>

\* ---- C31 ---------------------------------------------------------------
\* C31: every call of estimateTokens on a text returns what the first call
\* on that text returned, whatever calls were made in between; the calls
\* leave no state behind; and estimateTokens of the empty string is 0.
C31_EstimateTokensDeterministic ==
    /\ etLast.returned => etFirst.returned /\ etLast.value = etFirst.value
    /\ etRegex = FreshRegex
    /\ (etLast.returned /\ etText = <<>>) => etLast.value = 0

\* Two calls on a CamelCase word with a call on another text in between.
C31_Witness ==
    /\ etCalls = <<"text", "other", "text">>
    /\ etText = <<"a", "a", "a", "Z", "a", "a", "a", "a", "Z", "a", "a", "a", "a", "a", "a", "a">>
    /\ etLast.returned
    /\ etLast.value = 4

\* ---- C34 ---------------------------------------------------------------
\* The waits the spec lists, in ms: 1 s, 2 s, 4 s, 8 s, 16 s before retries
\* 1..5, then 30 s.
C34_Wait(n) ==
    CASE n = 1 -> 1000
      [] n = 2 -> 2000
      [] n = 3 -> 4000
      [] n = 4 -> 8000
      [] n = 5 -> 16000
      [] OTHER -> 30000

\* C34: executeWithRetry waits nothing before the first attempt, and before
\* the n-th retry it waits 1 s, 2 s, 4 s, 8 s, 16 s for n = 1..5 and 30 s for
\* every later n: the waits so far are exactly those of the retries begun.
C34_BackoffSchedule ==
    /\ Len(bkSleeps) = (IF bkPc = "run" THEN bkAttempt
                        ELSE IF bkAttempt = 0 THEN 0 ELSE bkAttempt - 1)
    /\ \A n \in 1..Len(bkSleeps) : bkSleeps[n] = C34_Wait(n)
    /\ Len(bkSleeps) <= bkMaxRetries

\* Seven retries, all failed: the sixth and seventh waits are the capped ones.
C34_Witness ==
    /\ bkPc = "done"
    /\ bkExitCode # 0
    /\ bkSleeps = <<1000, 2000, 4000, 8000, 16000, 30000, 30000>>

\* ---- C33 ---------------------------------------------------------------
\* The sections enforceTokenBudget dropped.
RemovedSections == (1..Len(tbSections)) \ Range(tbResult.value)

\* The removable sections the loop visits before section i: those with a
\* greater priority number, and those of the same priority placed before i.
VisitedBefore(i) ==
    {j \in Removable(tbSections) :
        \/ tbSections[j].priority > tbSections[i].priority
        \/ tbSections[j].priority = tbSections[i].priority /\ j < i}

\* The sum of the tokens of a set of sections.
TokensOf(idxs) ==
    SumTokens(tbSections, SelectSeq(AllIndices(tbSections), LAMBDA i : i \in idxs))

\* C33: over budget, enforceTokenBudget removes sections in descending
\* priority number and stops as soon as what remains fits: a section is
\* removed exactly if it is removable and the total was still over budget
\* after the sections visited before it were removed, so it is removed only
\* if every removable section of greater priority number was; the retained
\* sections keep their input order; within budget the input is returned as
\* it is.
C33_RemovesByPriorityUntilFits ==
    tbResult.returned =>
        LET total == TokensOf(1..Len(tbSections))
        IN  /\ total <= tbBudget => tbResult.value = AllIndices(tbSections)
            /\ total > tbBudget =>
                  RemovedSections =
                      {i \in Removable(tbSections) :
                          total - TokensOf(VisitedBefore(i)) > tbBudget}
            /\ \A i \in RemovedSections : \A j \in Removable(tbSections) :
                  tbSections[j].priority > tbSections[i].priority
                      => j \in RemovedSections
            /\ \A a, b \in 1..Len(tbResult.value) :
                  a < b => tbResult.value[a] < tbResult.value[b]

\* Over budget with three removable sections: the one of the greatest
\* priority number went, which was enough, and the two of lower priority stay.
C33_Witness ==
    /\ tbResult.returned
    /\ Len(tbSections) = 3
    /\ Removable(tbSections) = {1, 2, 3}
    /\ tbSections[2].priority > tbSections[1].priority
    /\ tbSections[1].priority = tbSections[3].priority
    /\ TokensOf({1, 2, 3}) > tbBudget
    /\ tbResult.value = <<1, 3>>

\* ---- C36 ---------------------------------------------------------------
\* C36: no step of the engine (each save trims the log it stores) takes a
\* phase id out of the set of ids that have a PHASE_COMPLETE event in the
\* session's log, so the completed set resume() computes does not change
\* over a save.
C36_TrimKeepsCompletedSet ==
    [][CompletedIn(session.events) \subseteq CompletedIn(session'.events)]_vars

\* ---- C32 ---------------------------------------------------------------
\* The phases without a PHASE_COMPLETE event in the log the resume loaded.
LeftWhenLoaded == {i \in DOMAIN workflow : PhaseAt(i).id \notin CompletedIn(loadedEvents)}

\* The events the run has appended to the log it loaded.
AppendedSinceLoad ==
    SubSeq(session.events, Len(loadedEvents) + 1, Len(session.events))

\* C32: a resume of a linear session that is not completed sets the status to
\* running, appends one SESSION_RESUME event and dispatches first the phase
\* of the lowest array index that has no PHASE_COMPLETE event in the loaded
\* log; when every phase has one it sets the status to completed, appends
\* nothing and dispatches nothing.
C32_ResumeDispatchesFirstIncomplete ==
    (run = "resume" /\ ~HasDependsOn(workflow)) =>
        /\ SubSeq(session.events, 1, Len(loadedEvents)) = loadedEvents
        /\ IF LeftWhenLoaded = {}
           THEN /\ session.status = "completed"
                /\ AppendedSinceLoad = <<>>
                /\ \A i \in DOMAIN workflow : wPc[i] = "none" /\ wInvocations[i] = 0
           ELSE /\ AppendedSinceLoad # <<>>
                /\ AppendedSinceLoad[1].type = "SESSION_RESUME"
                /\ \A k \in 2..Len(AppendedSinceLoad) :
                      AppendedSinceLoad[k].type # "SESSION_RESUME"
                /\ mainPc \in {"resumeSer", "resumeRen", "resumeExecute"}
                      => session.status = "running" /\ Len(AppendedSinceLoad) = 1
                /\ Len(AppendedSinceLoad) >= 2 =>
                      /\ AppendedSinceLoad[2].type = "PHASE_START"
                      /\ \E i \in LeftWhenLoaded :
                            /\ AppendedSinceLoad[2].phase = PhaseAt(i).id
                            /\ \A j \in LeftWhenLoaded : i <= j

\* A session that failed in its first phase of two was resumed, failed in the
\* second, and was resumed again: the second resume dispatched the second
\* phase, the first phase having its PHASE_COMPLETE event.
C32_Witness ==
    /\ run = "resume"
    /\ resumes = 2
    /\ ~HasDependsOn(workflow)
    /\ LeftWhenLoaded = {2}
    /\ Len(AppendedSinceLoad) >= 2
    /\ AppendedSinceLoad[2].phase = PhaseAt(2).id
    /\ \E k \in DOMAIN loadedEvents : loadedEvents[k].type = "PHASE_FAILED"

\* ---- C35 ---------------------------------------------------------------
\* The phase at whose approval gate the loaded session is paused: the phase
\* of the GATE_PAUSE event that ends the loaded log, if it has no
\* PHASE_COMPLETE event; NoId otherwise.
GatedWhenLoaded ==
    IF /\ loadedEvents # <<>>
       /\ loadedEvents[Len(loadedEvents)].type = "GATE_PAUSE"
       /\ loadedEvents[Len(loadedEvents)].phase \notin CompletedIn(loadedEvents)
    THEN loadedEvents[Len(loadedEvents)].phase
    ELSE NoId

\* The positions of the events of a type among those appended since the load.
AppendedOfType(type) ==
    {k \in DOMAIN AppendedSinceLoad : AppendedSinceLoad[k].type = type}

\* C35: a resume of a linear session paused at an approval gate whose phase
\* has no PHASE_COMPLETE event dispatches the gated phase again and nothing
\* else, invokes no executor, and ends paused with one more PHASE_START (the
\* prompt counted) and one more GATE_PAUSE of that phase; the session never
\* gets past the gate.
C35_ResumeAtGatePausesAgain ==
    (run = "resume" /\ ~HasDependsOn(workflow) /\ GatedWhenLoaded # NoId) =>
        /\ \A k \in DOMAIN AppendedSinceLoad :
              \/ AppendedSinceLoad[k].type = "SESSION_RESUME"
              \/ /\ AppendedSinceLoad[k].type \in {"PHASE_START", "GATE_PAUSE"}
                 /\ AppendedSinceLoad[k].phase = GatedWhenLoaded
        /\ Cardinality(AppendedOfType("PHASE_START")) <= 1
        /\ Cardinality(AppendedOfType("GATE_PAUSE")) <= 1
        /\ \A i \in DOMAIN workflow : wInvocations[i] = 0
        /\ session.status # "completed"
        /\ mainPc = "returned" =>
              /\ session.status = "paused"
              /\ Cardinality(AppendedOfType("PHASE_START")) = 1
              /\ Cardinality(AppendedOfType("GATE_PAUSE")) = 1

\* ---- C37 ---------------------------------------------------------------
\* The events the current run of start or resume has appended.
AppendedByRun == IF run = "resume" THEN AppendedSinceLoad ELSE session.events

\* C37: in wave mode, when a run has gone through executeWaves and the
\* session status is completed, every phase of the workflow has a
\* PHASE_COMPLETE event in the log and the run has appended exactly one
\* SESSION_COMPLETE event, as the last event of the log.
C37_WaveCompletedHasAllPhases ==
    (/\ HasDependsOn(workflow)
     /\ run \in {"start", "resume"}
     /\ run = "resume" => LeftWhenLoaded # {}
     /\ session.status = "completed") =>
        /\ \A i \in DOMAIN workflow : PhaseAt(i).id \in CompletedIn(session.events)
        /\ Cardinality({k \in DOMAIN AppendedByRun :
                           AppendedByRun[k].type = "SESSION_COMPLETE"}) = 1
        /\ session.events[Len(session.events)].type = "SESSION_COMPLETE"

\* A wave session that failed in its last wave was resumed and completed:
\* the phases of the first wave were not run again.
C37_Witness ==
    /\ HasDependsOn(workflow)
    /\ run = "resume"
    /\ mainPc = "returned"
    /\ session.status = "completed"
    /\ sessionFile.content = session
    /\ Cardinality(LeftWhenLoaded) = 1
    /\ \E k \in DOMAIN loadedEvents : loadedEvents[k].type = "PHASE_FAILED"

\* ---- C39 ---------------------------------------------------------------
\* The step in which executor.run resolves with a result for phase i.
ResultReturned(i) ==
    /\ wPc[i] = "running"
    /\ wPc'[i] = "result"
    /\ wResult'[i].value # CrashResult

\* C39: the session's cumulative tokens are the sum of tokensUsed over the
\* executor invocations that returned a result, non-zero exit codes
\* included, and never decrease: they start at 0, a step in which an
\* invocation returns adds its tokensUsed, and no other step changes them.
C39_TokensAreSumOfResults ==
    [][IF session = NoSession THEN session'.tokens = 0
       ELSE IF \E i \in DOMAIN workflow : ResultReturned(i)
            THEN \E i \in DOMAIN workflow :
                    /\ ResultReturned(i)
                    /\ session'.tokens = session.tokens + wResult'[i].value.tokensUsed
            ELSE session'.tokens = session.tokens]_vars

C40_WithLockNeverDeadlocks ==
    /\ [](\A c \in Callers :
             lkPc[c] = "done" => activeLocks[Resolve(lkFilePath[c])] # c)
    /\ \A c \in Callers : (lkPc[c] = "await") ~> (lkPc[c] = "list")
    /\ \A c \in Callers : <>(lkPc[c] = "done")

\* A caller runs its callback after it waited for a lock whose holder's
\* callback threw.
C40_Witness ==
    \E c, d \in Callers :
        /\ c # d
        /\ Resolve(lkFilePath[c]) = Resolve(lkFilePath[d])
        /\ lkPc[d] = "done"
        /\ lkReturned[d] = Threw
        /\ d \in resolvedLocks
        /\ lkPc[c] = "list"
        /\ activeLocks[Resolve(lkFilePath[c])] = c

====
